---- MODULE Spec2Model ----
(***************************************************************************)
(* Session lifecycle, turn accumulation and dual-session coordination of   *)
(* the live lecture summarizer / interview copilot:                        *)
(*   services/liveApiService.ts          LiveApiService                    *)
(*   services/geminiService.ts           GeminiService                     *)
(*   services/dualGeminiSessionManager.ts DualGeminiSessionManager         *)
(*   utils/continuousStreaming.ts        ContinuousStreamingCapture        *)
(*                                                                         *)
(* JavaScript runs every callback to completion on one event loop, so each *)
(* handler (a public method, a transport callback, a timer callback, the   *)
(* continuation of an await) is one atomic action.  The remote model and   *)
(* the transport are the environment: they resolve or reject handshakes,   *)
(* deliver messages on open connections and close connections at any time. *)
(***************************************************************************)
EXTENDS Integers, Sequences, FiniteSets, TLC

VARIABLES
    scenario,   \* what runs: "live", "turns", "retry" (one LiveApiService and its
                \* caller), "gemini", "gsummary", "gturns", "gretry" (one
                \* GeminiService and its caller),
                \* "dual" (a DualGeminiSessionManager and its two services),
                \* "sends" (one LiveApiService whose caller sends),
                \* "stream" (the same with its ContinuousStreamingCapture),
                \* "capture" (the same, the capture's owner calling
                \* setTranscribing),
                \* "interview" (the onModelResponse callback of InterviewMode),
                \* "sampling" (a DynamicSampling object and its owner)
    live,       \* [Inst -> fields of one LiveApiService object]
    liveConn,   \* [Inst -> sequence of connections that object has requested]
    gem,        \* the fields of one GeminiService object
    gemConn,    \* the sequence of connections that object has requested
    localStorage, \* the value stored under SESSION_HANDLE_KEY (0: none)
    mgr,        \* the fields of the DualGeminiSessionManager
    cap,        \* the fields of its ContinuousStreamingCapture
    turn,       \* [Objects -> the text the remote has sent since the buffer was last
                \* reset, and how much of it preceded the last interrupted signal]
    hist,       \* what became of the buffered characters of an interrupted summary
    flow,       \* the transcripts enqueued and submitted since the last start()
    caller,     \* [Objects -> the caller's last call ("none", "connect", "disconnect")
                \* and how many times it has called connect()]
    last,       \* the Turns the last step emitted and what is worth noting of it
    backoff,    \* [Objects -> the delays of the reconnect timers set since the
                \* object was constructed or a connection of it last opened],
                \* in the scenarios "retry" and "gretry"
    interview,  \* the transcript and replies lists of InterviewMode and the Turn
                \* its onModelResponse callback handled last
    sampler     \* the fields of the DynamicSampling object, its operation queue
                \* and what its last step did

vars == <<scenario, live, liveConn, gem, gemConn, localStorage, mgr, cap,
          turn, hist, flow, caller, last, backoff, interview, sampler>>

liveVars == <<live, liveConn>>
gemVars == <<gem, gemConn, localStorage, hist>>
dualVars == <<mgr, cap, flow>>

----------------------------------------------------------------------------
(* Bounds of the model *)

\* connections one service object may request in a run
MaxConns == 3

\* tokens of the text of a Turn of the interview pipeline
MaxText == 5

\* callbacks chained on the operation queue of a DynamicSampling at a time
MaxOps == 2

\* calls of start() of a DynamicSampling that pass its guard
MaxSamplerStarts == 2

\* capture ids a DynamicSampling assigns between two resets of its counter
MaxCaptures == 2
\* connect() calls the caller itself makes on one service object
MaxCalls == 2
\* characters the accumulation buffer may hold
MaxBuf == 3
\* content parts in one server message
MaxParts == 2
\* resumption handles the remote issues
MaxHandles == 1
\* transcripts the transcript session produces after one start()
MaxTranscripts == 3
\* start() calls on the manager
MaxStarts == 1
\* audio chunks the script processor hands to onaudioprocess
MaxChunks == 2

(* Program constants *)

maxReconnectAttempts == 3

\* the entries the audio buffer may hold
audioBufferLimit == 50

----------------------------------------------------------------------------
(* Text.  A string is a sequence of characters; " " stands for any          *)
(* whitespace character, the other characters for non-whitespace.           *)

Char == {" ", "a", "b"}

RECURSIVE Trim(_)

\* String.prototype.trim: the whitespace at the two ends is removed
Trim(t) ==
    IF t # <<>> /\ Head(t) \in {" ", "\n"} THEN Trim(Tail(t))
    ELSE IF t # <<>> /\ t[Len(t)] \in {" ", "\n"} THEN Trim(SubSeq(t, 1, Len(t) - 1))
    ELSE t

\* part.text of one content part: "" (absent or empty) or one character
PartText == {<<>>} \cup {<<ch>> : ch \in Char}

RECURSIVE SeqsUpTo(_, _)
SeqsUpTo(S, n) ==
    IF n = 0 THEN {<<>>}
    ELSE LET shorter == SeqsUpTo(S, n - 1)
         IN  shorter \cup {Append(q, x) : q \in {r \in shorter : Len(r) = n - 1}, x \in S}

RECURSIVE Concat(_)
Concat(parts) == IF parts = <<>> THEN <<>> ELSE Head(parts) \o Concat(Tail(parts))

----------------------------------------------------------------------------
(* Callbacks.  A handler's result carries the callbacks it invoked.         *)

Cb(name) == [cb |-> name, text |-> <<>>]
CbText(name, t) == [cb |-> name, text |-> t]

\* the Turns a handler emitted (onModelResponse / onMessage), in order
Emitted(cbs) == SelectSeq(cbs, LAMBDA e : e.cb \in {"onModelResponse", "onMessage"})

CountCb(cbs, name) == Len(SelectSeq(cbs, LAMBDA e : e.cb = name))

\* the delay attemptReconnection computes from the incremented counter:
\* Math.min(1000 * Math.pow(2, reconnectAttempts - 1), 5000)
ReconnectDelay(reconnectAttempts) ==
    LET exponential == 1000 * 2^(reconnectAttempts - 1)
    IN  IF exponential <= 5000 THEN exponential ELSE 5000

\* the delays set since the last open, after a handler that invoked cbs;
\* they are followed where the attempt counter is explored
BackoffAfter(b, cbs) ==
    LET sel == SelectSeq(cbs, LAMBDA e : e.cb = "setTimeout")
    IN  IF scenario \notin {"retry", "gretry"} THEN b
        ELSE IF CountCb(cbs, "onopen") > 0 THEN <<>>
        ELSE b \o [i \in DOMAIN sel |-> sel[i].text[1]]

----------------------------------------------------------------------------
(* LiveApiService.  S is [L: the object's fields, C: its connections,      *)
(* cbs: callbacks invoked so far by the running handler].                   *)
(* A connection is "handshaking" (ai.live.connect is awaited), "open",     *)
(* "closing" (close() was called, the close event is still to come) or     *)
(* "closed" (its close event has come or its handshake was rejected); what *)
(* else was known of a closed connection is forgotten.                     *)

Inst == {"transcript", "reply"}

Objects == Inst \cup {"gemini"}

Closed == [st |-> "closed", auto |-> FALSE]

LiveNew ==
    [ session                |-> 0,       \* 0: undefined, else the index of a connection
      isIntentionallyClosing |-> FALSE,
      currentMessage         |-> <<>>,
      reconnectAttempts      |-> 0,
      reconnectTimeoutId     |-> "null",  \* "null", "pending" or "fired"
      strayTimers            |-> 0,       \* pending timers whose id was overwritten
      hasSignaledTurnStart   |-> FALSE ]

\* messages of the remote: serverContent.modelTurn (with its parts),
\* serverContent.turnComplete and serverContent.interrupted
Message(mt, parts, tc, intr) ==
    [modelTurn |-> mt, parts |-> parts, turnComplete |-> tc, interrupted |-> intr]

Messages ==
    { Message(mt, parts, tc, intr) :
        mt \in BOOLEAN, parts \in SeqsUpTo(PartText, MaxParts),
        tc \in BOOLEAN, intr \in BOOLEAN }

\* parts exist only inside a modelTurn
WellFormed(m) == m.parts # <<>> => m.modelTurn

\* the messages offered where the text of a turn is not what is explored:
\* one fragment, a bare turnComplete
Offered ==
    IF scenario = "turns" THEN Messages
    ELSE { Message(TRUE, <<(<<"a">>)>>, FALSE, FALSE),
           Message(FALSE, <<>>, TRUE, FALSE) }

\* the text of the turns is explored on the first connection of an object;
\* a service of the manager is followed through its first connection and one
\* reconnection, a summarizing GeminiService through two reconnections; where the attempt
\* counter is to pass its maximum one more connection is needed than attempts
ConnBound ==
    IF scenario \in {"turns", "gturns"} THEN 1
    ELSE IF scenario = "dual" THEN 2
    ELSE IF scenario = "gsummary" THEN 3
    ELSE IF scenario \in {"stream", "capture"} THEN 1
    ELSE IF scenario \in {"retry", "gretry"} THEN MaxConns + 1
    ELSE MaxConns

\* overlapping connect() calls of the caller are explored where the
\* connections are
CallBound ==
    IF scenario \in {"live", "gemini"} THEN MaxCalls
    ELSE IF scenario \in {"retry", "gretry"} THEN 2 ELSE 1

\* where the connections are explored a turn is one fragment
BufBound == IF scenario \in {"turns", "gturns", "gsummary"} THEN MaxBuf ELSE 1

\* a variant of connect() without the guard on the session
LiveConnectUnguarded(S, auto) ==
    [S EXCEPT !.L.isIntentionallyClosing = FALSE,
              !.C = Append(@, [st |-> "handshaking", auto |-> auto]),
              !.cbs = Append(@, Cb("live.connect"))]

\* connect(), up to the awaited ai.live.connect
LiveConnect(S, auto) ==
    IF S.L.session # 0 THEN S
    ELSE [S EXCEPT !.L.isIntentionallyClosing = FALSE,
                   !.C = Append(@, [st |-> "handshaking", auto |-> auto]),
                   !.cbs = Append(@, Cb("live.connect"))]

\* onopen, then the continuation of the await: this.session = <the new Session>
LiveOnOpen(S, c) ==
    [S EXCEPT !.L.reconnectAttempts = 0,
              !.L.session = c,
              !.C[c].st = "open",
              !.cbs = Append(@, Cb("onopen"))]

\* a variant of the catch block that reports nothing
LiveConnectCatchSilent(S, c) == [S EXCEPT !.C[c] = Closed]

\* the catch block of connect(); the rethrown error is swallowed by the
\* reconnect timer's catch or reaches the caller of connect()
LiveConnectCatch(S, c) ==
    [S EXCEPT !.C[c] = Closed,
              !.cbs = Append(@, Cb("onError"))]

\* attemptReconnection
LiveAttemptReconnection(S) ==
    [S EXCEPT !.L.reconnectAttempts = @ + 1,
              !.cbs = @ \o <<Cb("onReconnecting"),
                             CbText("setTimeout",
                                    <<ReconnectDelay(S.L.reconnectAttempts + 1)>>)>>,
              !.L.strayTimers = IF S.L.reconnectTimeoutId = "pending" THEN @ + 1 ELSE @,
              !.L.reconnectTimeoutId = "pending"]

\* onclose
LiveOnClose(S, c) ==
    LET S1 == [S EXCEPT !.C[c] = Closed, !.L.session = 0]
    IN  IF S.L.isIntentionallyClosing THEN S1
        ELSE IF S.L.reconnectAttempts < maxReconnectAttempts
             THEN LiveAttemptReconnection(S1)
             ELSE [S1 EXCEPT !.cbs = Append(@, Cb("onClose"))]

\* onerror
LiveOnError(S) == [S EXCEPT !.cbs = Append(@, Cb("onError"))]

\* the loop over modelTurn.parts
RECURSIVE LiveAppendParts(_, _)
LiveAppendParts(S, parts) ==
    IF parts = <<>> THEN S
    ELSE LET text == Head(parts)
             S1 == IF text # <<>>
                   THEN [S EXCEPT !.L.currentMessage = @ \o text,
                                  !.cbs = Append(@, Cb("onPartialResponse"))]
                   ELSE S
         IN  LiveAppendParts(S1, Tail(parts))

\* a variant of the turnComplete branch that emits the buffer as it is
LiveTurnCompleteUntrimmed(S) ==
    LET S1 == [S EXCEPT !.L.hasSignaledTurnStart = FALSE]
        S2 == IF Trim(S1.L.currentMessage) # <<>>
              THEN [S1 EXCEPT !.cbs = Append(@, CbText("onModelResponse",
                                                       S1.L.currentMessage))]
              ELSE S1
    IN  [S2 EXCEPT !.L.currentMessage = <<>>]

\* a variant of the turnComplete branch that resets the buffer only when it
\* emits a Turn
LiveTurnCompleteKeepsBlank(S) ==
    LET S1 == [S EXCEPT !.L.hasSignaledTurnStart = FALSE]
    IN  IF Trim(S1.L.currentMessage) # <<>>
        THEN [S1 EXCEPT !.cbs = Append(@, CbText("onModelResponse",
                                                 Trim(S1.L.currentMessage))),
                        !.L.currentMessage = <<>>]
        ELSE S1

\* the turnComplete branch of onmessage
LiveTurnComplete(S) ==
    LET S1 == [S EXCEPT !.L.hasSignaledTurnStart = FALSE]
        S2 == IF Trim(S1.L.currentMessage) # <<>>
              THEN [S1 EXCEPT !.cbs = Append(@, CbText("onModelResponse",
                                                       Trim(S1.L.currentMessage)))]
              ELSE S1
    IN  [S2 EXCEPT !.L.currentMessage = <<>>]

\* a variant of the interrupted branch that discards the buffer
LiveInterruptedDiscards(S) ==
    [S EXCEPT !.L.hasSignaledTurnStart = FALSE, !.L.currentMessage = <<>>]

\* the interrupted branch of onmessage
LiveInterrupted(S) == [S EXCEPT !.L.hasSignaledTurnStart = FALSE]

\* a variant of onmessage that signals the start of a turn when the first
\* text arrives
LiveOnMessageStartsOnText(S, m) ==
    LET S1 == IF m.modelTurn /\ Concat(m.parts) # <<>> /\ ~S.L.hasSignaledTurnStart
              THEN [S EXCEPT !.L.hasSignaledTurnStart = TRUE,
                             !.cbs = Append(@, Cb("onModelTurnStart"))]
              ELSE S
        S2 == IF m.modelTurn THEN LiveAppendParts(S1, m.parts) ELSE S1
        S3 == IF m.turnComplete THEN LiveTurnComplete(S2) ELSE S2
    IN  IF m.interrupted THEN LiveInterrupted(S3) ELSE S3

\* onmessage
LiveOnMessage(S, m) ==
    LET S1 == IF m.modelTurn /\ ~S.L.hasSignaledTurnStart
              THEN [S EXCEPT !.L.hasSignaledTurnStart = TRUE,
                             !.cbs = Append(@, Cb("onModelTurnStart"))]
              ELSE S
        S2 == IF m.modelTurn THEN LiveAppendParts(S1, m.parts) ELSE S1
        S3 == IF m.turnComplete THEN LiveTurnComplete(S2) ELSE S2
    IN  IF m.interrupted THEN LiveInterrupted(S3) ELSE S3

\* the reconnect timer's callback
LiveReconnectTimer(S) == LiveConnect(S, TRUE)

\* sendRealtimeAudio, sendVideoFrame, sendText and endAudioStream: op is the
\* method; ok: the send of the transport succeeds (it throws or rejects
\* otherwise, inside the method's try block)
LiveSend(S, op, ok) ==
    IF S.L.session = 0 THEN S
    ELSE IF ok THEN [S EXCEPT !.cbs = Append(@, Cb(op))]
    ELSE S

\* a variant of disconnect() that assigns isIntentionallyClosing outside
\* the test of the session
LiveDisconnectFlagsSession(S) ==
    LET S1 == [S EXCEPT !.L.reconnectTimeoutId = "null",
                        !.L.isIntentionallyClosing = (S.L.session # 0)]
    IN  IF S1.L.session # 0
        THEN [S1 EXCEPT !.L.currentMessage = <<>>,
                        !.C[S1.L.session].st = "closing",
                        !.L.session = 0]
        ELSE S1

\* disconnect()
LiveDisconnect(S) ==
    LET S1 == IF S.L.reconnectTimeoutId # "null"
              THEN [S EXCEPT !.L.reconnectTimeoutId = "null"]
              ELSE S
    IN  IF S1.L.session # 0
        THEN [S1 EXCEPT !.L.isIntentionallyClosing = TRUE,
                        !.L.currentMessage = <<>>,
                        !.C[S1.L.session].st = "closing",
                        !.L.session = 0]
        ELSE S1

\* isConnected()
LiveIsConnected(L) == L.session # 0

----------------------------------------------------------------------------
(* GeminiService.  S is [G: the object's fields, C: its connections,       *)
(* store: localStorage, cbs: the callbacks and transport sends of the      *)
(* running handler].  A handle is a positive number; 0 is null.            *)
(* localStorage = -1: storage is unavailable and every call on it throws.  *)

Handles == 1..MaxHandles

GemClosed == [st |-> "closed", auto |-> FALSE, handle |-> 0]

\* the constructor, loadSessionHandle included
GemNew(stored) ==
    [ session                |-> 0,
      isIntentionallyClosing |-> FALSE,
      currentMessage         |-> <<>>,
      currentSessionHandle   |-> IF stored > 0 THEN stored ELSE 0,
      reconnectAttempts      |-> 0,
      reconnectTimeoutId     |-> "null",  \* "null", "pending" or "fired"
      strayTimers            |-> 0,       \* pending timers whose id was overwritten
      hasCompletionCallback  |-> FALSE,   \* summaryCompletionCallback # null
      isExpectingSummary     |-> FALSE,
      summaryTimeoutId       |-> "null",  \* "null", "pending" or "fired"
      rerequestTimers        |-> 0 ]      \* pending 1000 ms timers of onopen

\* a variant of saveSessionHandle that writes localStorage alone
GemSaveSessionHandleStorageOnly(S, h) ==
    IF S.store = -1 THEN S
    ELSE [S EXCEPT !.store = h]

\* saveSessionHandle
GemSaveSessionHandle(S, h) ==
    IF S.store = -1 THEN S
    ELSE [S EXCEPT !.store = h, !.G.currentSessionHandle = h]

\* clearSessionHandle
GemClearSessionHandle(S) ==
    IF S.store = -1 THEN S
    ELSE [S EXCEPT !.store = 0, !.G.currentSessionHandle = 0]

\* a summary-like chunk: text on which the three tests of
\* checkForSummaryCompletion (an indicator phrase, more than 150 characters,
\* at least 5 "Data Point N") succeed once it is part of the message
SummaryMark == "s"

IsSummary(text) == \E i \in DOMAIN text : text[i] = SummaryMark

\* messages of the remote: sessionResumptionUpdate (update: the new handle
\* of a resumable update, 0 if there is none), modelTurn parts, turnComplete;
\* goAway is only logged
GemMessage(update, parts, tc) ==
    [update |-> update, parts |-> parts, turnComplete |-> tc, interrupted |-> FALSE]

GemMessages ==
    { GemMessage(0, parts, tc) : parts \in SeqsUpTo(PartText, MaxParts), tc \in BOOLEAN }

GemOffered ==
    IF scenario = "gturns" THEN GemMessages
    ELSE IF scenario = "gsummary"
    THEN { GemMessage(0, <<(<<"a">>)>>, FALSE),
           GemMessage(0, <<(<<SummaryMark>>)>>, FALSE),
           GemMessage(0, <<>>, TRUE),
           GemMessage(1, <<>>, FALSE) }
    ELSE IF scenario = "gretry" THEN { GemMessage(h, <<>>, FALSE) : h \in Handles }
    ELSE { GemMessage(0, <<(<<"a">>)>>, FALSE),
           GemMessage(0, <<>>, TRUE) }
         \cup { GemMessage(h, <<>>, FALSE) : h \in Handles }

\* connect(callbacks, resumeHandle), up to the awaited ai.live.connect;
\* resume = -1: the argument is undefined
GemConnect(S, resume, auto) ==
    IF S.G.session # 0 THEN S
    ELSE LET handleToUse == IF resume # -1 THEN resume ELSE S.G.currentSessionHandle
         IN  [S EXCEPT !.G.isIntentionallyClosing = FALSE,
                       !.C = Append(@, [st |-> "handshaking", auto |-> auto,
                                        handle |-> handleToUse]),
                       !.cbs = Append(@, Cb("live.connect"))]

\* a variant of onopen that schedules the re-request without clearing the buffer
GemOnOpenKeepsBuffer(S, c) ==
    LET S1 == IF S.C[c].handle # 0 /\ S.G.isExpectingSummary
              THEN [S EXCEPT !.G.rerequestTimers = @ + 1]
              ELSE S
    IN  [S1 EXCEPT !.G.reconnectAttempts = 0,
                   !.G.session = c,
                   !.C[c].st = "open",
                   !.cbs = Append(@, Cb("onopen"))]

\* onopen, then the continuation of the await: this.session = <the new Session>
GemOnOpen(S, c) ==
    LET S1 == IF S.C[c].handle # 0 /\ S.G.isExpectingSummary
              THEN [S EXCEPT !.G.currentMessage = <<>>,
                             !.G.rerequestTimers = @ + 1]
              ELSE S
    IN  [S1 EXCEPT !.G.reconnectAttempts = 0,
                   !.G.session = c,
                   !.C[c].st = "open",
                   !.cbs = Append(@, Cb("onopen"))]

\* the catch block of the reconnect timer, reached by an error connect() throws
GemTimerCatch(S) ==
    IF S.G.reconnectAttempts >= maxReconnectAttempts
    THEN LET S1 == GemClearSessionHandle(S)
         IN  [S1 EXCEPT !.cbs = Append(@, Cb("onError"))]
    ELSE S

\* the end of the catch block of connect(): report and rethrow
GemConnectFailed(S, auto) ==
    LET S1 == [S EXCEPT !.cbs = Append(@, Cb("onError"))]
    IN  IF auto THEN GemTimerCatch(S1) ELSE S1

\* the catch block of connect(); notFound: the error text includes 'not found'
GemConnectCatch(S, c, notFound) ==
    LET S0 == [S EXCEPT !.C[c] = GemClosed]
    IN  IF notFound
        THEN LET S1 == GemClearSessionHandle(S0)
             IN  IF S.C[c].handle # 0 /\ S1.G.reconnectAttempts = 0
                 THEN GemConnect([S1 EXCEPT !.G.reconnectAttempts = @ + 1],
                                 0, S.C[c].auto)
                 ELSE GemConnectFailed(S1, S.C[c].auto)
        ELSE GemConnectFailed(S0, S.C[c].auto)

\* attemptReconnection
GemAttemptReconnection(S) ==
    [S EXCEPT !.G.reconnectAttempts = @ + 1,
              !.cbs = @ \o <<Cb("onReconnecting"),
                             CbText("setTimeout",
                                    <<ReconnectDelay(S.G.reconnectAttempts + 1)>>)>>,
              !.G.strayTimers = IF S.G.reconnectTimeoutId = "pending" THEN @ + 1 ELSE @,
              !.G.reconnectTimeoutId = "pending"]

\* a variant of onclose that reconnects whether or not a handle is stored
GemOnCloseAnyHandle(S, c) ==
    LET S1 == [S EXCEPT !.C[c] = GemClosed, !.G.session = 0]
    IN  IF S.G.isIntentionallyClosing THEN S1
        ELSE IF S1.G.reconnectAttempts < maxReconnectAttempts
             THEN GemAttemptReconnection(S1)
             ELSE LET S2 == GemClearSessionHandle(S1)
                  IN  [S2 EXCEPT !.cbs = Append(@, Cb("onClose"))]

\* a variant of onclose that keeps the handle when it gives up
GemOnCloseKeepsHandle(S, c) ==
    LET S1 == [S EXCEPT !.C[c] = GemClosed, !.G.session = 0]
    IN  IF S.G.isIntentionallyClosing THEN S1
        ELSE IF S1.G.currentSessionHandle # 0
                /\ S1.G.reconnectAttempts < maxReconnectAttempts
             THEN GemAttemptReconnection(S1)
             ELSE [S1 EXCEPT !.cbs = Append(@, Cb("onClose"))]

\* onclose
GemOnClose(S, c) ==
    LET S1 == [S EXCEPT !.C[c] = GemClosed, !.G.session = 0]
    IN  IF S.G.isIntentionallyClosing THEN S1
        ELSE IF S1.G.currentSessionHandle # 0
                /\ S1.G.reconnectAttempts < maxReconnectAttempts
             THEN GemAttemptReconnection(S1)
             ELSE IF S1.G.reconnectAttempts >= maxReconnectAttempts
                  THEN LET S2 == GemClearSessionHandle(S1)
                       IN  [S2 EXCEPT !.cbs = Append(@, Cb("onClose"))]
                  ELSE [S1 EXCEPT !.cbs = Append(@, Cb("onClose"))]

\* onerror
GemOnError(S) == [S EXCEPT !.cbs = Append(@, Cb("onError"))]

\* a variant of checkForSummaryCompletion that leaves the timeout running
GemCheckForSummaryCompletionKeepsTimer(S, message) ==
    IF ~S.G.isExpectingSummary \/ ~S.G.hasCompletionCallback THEN S
    ELSE IF IsSummary(message)
         THEN [S EXCEPT !.G.isExpectingSummary = FALSE,
                        !.cbs = Append(@, Cb("summaryCompletionCallback"))]
         ELSE S

\* checkForSummaryCompletion
GemCheckForSummaryCompletion(S, message) ==
    IF ~S.G.isExpectingSummary \/ ~S.G.hasCompletionCallback THEN S
    ELSE IF IsSummary(message)
         THEN [S EXCEPT !.G.isExpectingSummary = FALSE,
                        !.G.summaryTimeoutId = "null",
                        !.cbs = Append(@, Cb("summaryCompletionCallback"))]
         ELSE S

\* the loop over modelTurn.parts
RECURSIVE GemAppendParts(_, _)
GemAppendParts(S, parts) ==
    IF parts = <<>> THEN S
    ELSE LET text == Head(parts)
             S1 == IF text # <<>>
                   THEN [S EXCEPT !.G.currentMessage = @ \o text]
                   ELSE S
         IN  GemAppendParts(S1, Tail(parts))

\* the turnComplete branch of onmessage
GemTurnComplete(S) ==
    LET completeMessage == Trim(S.G.currentMessage)
        S1 == IF completeMessage # <<>>
              THEN GemCheckForSummaryCompletion(
                       [S EXCEPT !.cbs = Append(@, CbText("onMessage", completeMessage))],
                       completeMessage)
              ELSE S
    IN  [S1 EXCEPT !.G.currentMessage = <<>>]

\* onmessage
GemOnMessage(S, m) ==
    LET S1 == IF m.update # 0 THEN GemSaveSessionHandle(S, m.update) ELSE S
        S2 == GemAppendParts(S1, m.parts)
    IN  IF m.turnComplete THEN GemTurnComplete(S2) ELSE S2

\* sendFrame; dataSet12: the prompt includes 'This is data set 12'
GemSendFrame(S, dataSet12, ok) ==
    IF S.G.session = 0 THEN S
    ELSE LET S1 == IF dataSet12 THEN [S EXCEPT !.G.isExpectingSummary = TRUE] ELSE S
         IN  [S1 EXCEPT !.cbs = Append(@, Cb(IF ok THEN "sendFrame" ELSE "throws"))]

\* a variant of requestSummary that raises the expectation before it looks
\* at the session
GemRequestSummaryFlagsFirst(S, ok) ==
    LET S1 == [S EXCEPT !.G.isExpectingSummary = TRUE]
    IN  IF S.G.session = 0 THEN S1
        ELSE [S1 EXCEPT !.G.summaryTimeoutId = "pending",
                        !.cbs = Append(@, Cb(IF ok THEN "requestSummary" ELSE "throws"))]

\* requestSummary
GemRequestSummary(S, ok) ==
    IF S.G.session = 0 THEN S
    ELSE [S EXCEPT !.G.isExpectingSummary = TRUE,
                   !.G.summaryTimeoutId = "pending",
                   !.cbs = Append(@, Cb(IF ok THEN "requestSummary" ELSE "throws"))]

\* the callback of the summary timeout
GemSummaryTimeout(S) ==
    IF S.G.isExpectingSummary
    THEN LET S1 == [S EXCEPT !.G.isExpectingSummary = FALSE,
                             !.G.summaryTimeoutId = "null"]
         IN  IF S.G.hasCompletionCallback
             THEN [S1 EXCEPT !.cbs = Append(@, Cb("summaryCompletionCallback"))]
             ELSE S1
    ELSE [S EXCEPT !.G.summaryTimeoutId = "fired"]

\* the reconnect timer's callback, up to the await
GemReconnectTimer(S) == GemConnect(S, S.G.currentSessionHandle, TRUE)

\* a variant of disconnect() that forgets the handle of the session it closes
GemDisconnectForgets(S) ==
    LET S1 == [S EXCEPT !.G.reconnectTimeoutId = "null",
                        !.G.summaryTimeoutId = "null"]
    IN  IF S1.G.session # 0
        THEN GemClearSessionHandle(
                 [S1 EXCEPT !.G.isIntentionallyClosing = TRUE,
                            !.G.currentMessage = <<>>,
                            !.G.isExpectingSummary = FALSE,
                            !.C[S1.G.session].st = "closing",
                            !.G.session = 0])
        ELSE S1

\* disconnect()
GemDisconnect(S) ==
    LET S1 == [S EXCEPT !.G.reconnectTimeoutId = "null",
                        !.G.summaryTimeoutId = "null"]
    IN  IF S1.G.session # 0
        THEN [S1 EXCEPT !.G.isIntentionallyClosing = TRUE,
                        !.G.currentMessage = <<>>,
                        !.G.isExpectingSummary = FALSE,
                        !.C[S1.G.session].st = "closing",
                        !.G.session = 0]
        ELSE S1

\* clearSession()
GemClearSession(S) ==
    LET S1 == GemClearSessionHandle(GemDisconnect(S))
    IN  [S1 EXCEPT !.G.reconnectAttempts = 0]

\* onSummaryComplete(callback)
GemOnSummaryComplete(S) == [S EXCEPT !.G.hasCompletionCallback = TRUE]

\* isConnected()
GemIsConnected(G) == G.session # 0

----------------------------------------------------------------------------
(* What a step leaves behind for the next state to show *)

\* the tag of the step that handles the close event of a connection of an
\* object with fields L
CloseTag(L) ==
    IF L.isIntentionallyClosing THEN ""
    ELSE IF L.reconnectAttempts < maxReconnectAttempts THEN "lost"
    ELSE "exhausted"

\* the tag of the step that handles message m in a turn t
MessageTag(t, m) ==
    IF m.turnComplete
    THEN IF t.cut > 0 /\ Len(t.text \o Concat(m.parts)) > t.cut
         THEN "resumed" ELSE "turn"
    ELSE IF m.interrupted THEN "interrupted" ELSE ""

Whole(t, m) == IF m.turnComplete THEN t.text \o Concat(m.parts) ELSE <<>>

NoNote == [inst |-> "none", tag |-> "", turns |-> <<>>, whole |-> <<>>,
           msg |-> "", started |-> 0]

\* tag: what the step of object s was, if it is one the properties speak of:
\* "turn": a turnComplete was handled, "resumed": one that ended a turn with
\* text after an interrupted signal, "interrupted": an interrupted signal
\* without a turnComplete was handled, "lost": a connection closed
\* unintentionally with the attempt counter below the maximum, "exhausted":
\* one closed unintentionally with the counter at the maximum, "failed": a
\* connect() was rejected and called onError (noted where the reconnect
\* attempts are followed), "rerequest": the timer of onopen called
\* requestSummary on a session, "send": the
\* caller called a send method, "fatal": the manager called its onError
\* callback and set the status ERROR;
\* turns: the Turns the step emitted; whole: for a turnComplete, the text
\* received since the buffer was last empty;
\* msg, started: where the text of the turns is explored, whether the step
\* handled a message with a modelTurn ("modelTurn") or without one ("plain"),
\* and how many times it invoked onModelTurnStart
Note(s, tag, cbs, whole) ==
    IF tag = "" /\ Emitted(cbs) = <<>> THEN NoNote
    ELSE [inst |-> s, tag |-> tag, turns |-> Emitted(cbs), whole |-> whole,
          msg |-> "", started |-> 0]

MessageNote(s, t, m, cbs) ==
    IF scenario = "turns"
    THEN [inst |-> s, tag |-> MessageTag(t, m), turns |-> Emitted(cbs),
          whole |-> Whole(t, m),
          msg |-> IF m.modelTurn THEN "modelTurn" ELSE "plain",
          started |-> CountCb(cbs, "onModelTurnStart")]
    ELSE Note(s, MessageTag(t, m), cbs, Whole(t, m))

TurnNone == [text |-> <<>>, cut |-> 0]

\* the turn after a message: turnComplete ends it, a fragment extends it, an
\* interrupted signal marks how much text preceded it
TurnAfter(t, m) ==
    IF m.turnComplete THEN TurnNone
    ELSE LET text == t.text \o Concat(m.parts)
         IN  [text |-> text, cut |-> IF m.interrupted THEN Len(text) ELSE t.cut]

----------------------------------------------------------------------------
(* Actions of a LiveApiService object s driven by its caller *)

LiveState(s) == [L |-> live[s], C |-> liveConn[s], cbs |-> <<>>]

LiveCommitNote(s, S, note) ==
    /\ live' = [live EXCEPT ![s] = S.L]
    /\ liveConn' = [liveConn EXCEPT ![s] = S.C]
    /\ last' = note
    /\ backoff' = [backoff EXCEPT ![s] = BackoffAfter(@, S.cbs)]

LiveCommit(s, S, tag, whole) == LiveCommitNote(s, S, Note(s, tag, S.cbs, whole))

\* the caller calls connect()
LiveCallConnect(s) ==
    /\ Len(liveConn[s]) < ConnBound
    /\ caller[s].connects < CallBound
    /\ LiveCommit(s, LiveConnect(LiveState(s), FALSE), "", <<>>)
    /\ caller' = [caller EXCEPT ![s] = [last |-> "connect", connects |-> @.connects + 1]]
    /\ UNCHANGED <<scenario, interview, sampler, gemVars, dualVars, turn>>

\* the remote accepts a handshake
LiveHandshakeOpens(s, c) ==
    /\ liveConn[s][c].st = "handshaking"
    /\ LiveCommit(s, LiveOnOpen(LiveState(s), c), "", <<>>)
    /\ UNCHANGED <<scenario, interview, sampler, gemVars, dualVars, turn, caller>>

\* the remote rejects a handshake
LiveHandshakeFails(s, c) ==
    /\ liveConn[s][c].st = "handshaking"
    /\ LET S == LiveConnectCatch(LiveState(s), c)
       IN  LiveCommit(s, S, IF scenario = "retry" /\ CountCb(S.cbs, "onError") > 0
                            THEN "failed" ELSE "", <<>>)
    /\ UNCHANGED <<scenario, interview, sampler, gemVars, dualVars, turn, caller>>

\* a message arrives on an open connection
LiveMessage(s, c, m) ==
    /\ liveConn[s][c].st = "open"
    /\ WellFormed(m)
    /\ Len(live[s].currentMessage) + Len(Concat(m.parts)) <= BufBound
    /\ LET S == LiveOnMessage(LiveState(s), m)
       IN  LiveCommitNote(s, S, MessageNote(s, turn[s], m, S.cbs))
    /\ turn' = [turn EXCEPT ![s] = TurnAfter(@, m)]
    /\ UNCHANGED <<scenario, interview, sampler, gemVars, dualVars, caller>>

\* the transport reports an error on a connection
LiveError(s, c) ==
    /\ liveConn[s][c].st \in {"handshaking", "open"}
    /\ LiveCommit(s, LiveOnError(LiveState(s)), "", <<>>)
    /\ UNCHANGED <<scenario, interview, sampler, gemVars, dualVars, turn, caller>>

\* the close event of a connection: the socket failed before it opened, the
\* remote or the network closed it, or the close() of disconnect() has completed
LiveClose(s, c) ==
    /\ liveConn[s][c].st \in {"handshaking", "open", "closing"}
    /\ LiveCommit(s, LiveOnClose(LiveState(s), c), CloseTag(live[s]), <<>>)
    /\ UNCHANGED <<scenario, interview, sampler, gemVars, dualVars, turn, caller>>

\* a pending reconnect timer fires: the one reconnectTimeoutId names ...
LiveTimerFires(s) ==
    /\ live[s].reconnectTimeoutId = "pending"
    /\ Len(liveConn[s]) < ConnBound
    /\ LET S == LiveState(s)
       IN  LiveCommit(s, LiveReconnectTimer([S EXCEPT !.L.reconnectTimeoutId = "fired"]),
                      "", <<>>)
    /\ UNCHANGED <<scenario, interview, sampler, gemVars, dualVars, turn, caller>>

\* ... or one whose id a later attemptReconnection overwrote
LiveStrayTimerFires(s) ==
    /\ live[s].strayTimers > 0
    /\ Len(liveConn[s]) < ConnBound
    /\ LET S == LiveState(s)
       IN  LiveCommit(s, LiveReconnectTimer([S EXCEPT !.L.strayTimers = @ - 1]),
                      "", <<>>)
    /\ UNCHANGED <<scenario, interview, sampler, gemVars, dualVars, turn, caller>>

\* the caller calls one of the send methods
LiveCallSend(s, op) ==
    /\ \E ok \in BOOLEAN : LiveCommit(s, LiveSend(LiveState(s), op, ok), "send", <<>>)
    /\ UNCHANGED <<scenario, interview, sampler, gemVars, dualVars, turn, caller>>

\* the caller calls disconnect()
LiveCallDisconnect(s) ==
    /\ LiveCommit(s, LiveDisconnect(LiveState(s)), "", <<>>)
    /\ turn' = [turn EXCEPT ![s] = IF live[s].session # 0 THEN TurnNone ELSE @]
    /\ caller' = [caller EXCEPT ![s].last = "disconnect"]
    /\ UNCHANGED <<scenario, interview, sampler, gemVars, dualVars>>

----------------------------------------------------------------------------
(* Actions of the GeminiService object *)

GemState == [G |-> gem, C |-> gemConn, store |-> localStorage, cbs |-> <<>>]

\* hist follows the characters of an interrupted summary: n characters of the
\* buffer were received before the disconnect; reconnected: a reconnection has
\* opened since and kept them; cleared: it discarded them instead and its
\* re-request is still to be issued
\* rejected: a handshake that carried a handle was rejected with 'not found'
\* and no connect attempt has been made since (followed where the attempt
\* counter is explored)
\* fired: how many times summaryCompletionCallback was called since
\* isExpectingSummary was last raised
HistNone ==
    [n |-> 0, reconnected |-> FALSE, cleared |-> FALSE, rejected |-> FALSE, fired |-> 0]

GemCommit(S, tag, whole, h) ==
    /\ gem' = S.G
    /\ gemConn' = S.C
    /\ localStorage' = S.store
    /\ last' = Note("gemini", tag, S.cbs, whole)
    /\ backoff' = [backoff EXCEPT !["gemini"] = BackoffAfter(@, S.cbs)]
    /\ hist' = LET h1 == IF S.G.currentMessage = <<>>
                         THEN [h EXCEPT !.n = 0, !.reconnected = FALSE]
                         ELSE h
               IN  [h1 EXCEPT !.rejected = (/\ scenario = "gretry"
                                            /\ @
                                            /\ Len(S.C) = Len(gemConn)),
                              !.fired = (IF ~gem.isExpectingSummary /\ S.G.isExpectingSummary
                                         THEN 0 ELSE @)
                                        + CountCb(S.cbs, "summaryCompletionCallback")]

\* the caller calls connect(callbacks)
GemCallConnect ==
    /\ Len(gemConn) < ConnBound
    /\ caller["gemini"].connects < CallBound
    /\ GemCommit(GemConnect(GemState, -1, FALSE), "", <<>>, hist)
    /\ caller' = [caller EXCEPT !["gemini"] =
                      [last |-> "connect", connects |-> @.connects + 1]]
    /\ UNCHANGED <<scenario, interview, sampler, liveVars, dualVars, turn>>

\* the remote accepts a handshake
GemHandshakeOpens(c) ==
    /\ gemConn[c].st = "handshaking"
    /\ LET clears == gemConn[c].handle # 0 /\ gem.isExpectingSummary
       IN  /\ GemCommit(GemOnOpen(GemState, c), "", <<>>,
                        [hist EXCEPT !.reconnected = hist.n > 0,
                                     !.cleared = @ \/ (clears /\ hist.n > 0)])
           /\ turn' = [turn EXCEPT !["gemini"] = IF clears THEN TurnNone ELSE @]
    /\ UNCHANGED <<scenario, interview, sampler, liveVars, dualVars, caller>>

\* the remote rejects a handshake, with or without 'not found' in the error
GemHandshakeFails(c, notFound) ==
    /\ gemConn[c].st = "handshaking"
    /\ Len(GemConnectCatch(GemState, c, notFound).C) <= ConnBound
    /\ LET S == GemConnectCatch(GemState, c, notFound)
       IN  GemCommit(S, IF scenario = "gretry" /\ CountCb(S.cbs, "onError") > 0
                        THEN "failed" ELSE "", <<>>,
                     [hist EXCEPT !.rejected = @ \/ (notFound /\ gemConn[c].handle # 0)])
    /\ UNCHANGED <<scenario, interview, sampler, liveVars, dualVars, turn, caller>>

\* a message arrives on an open connection
GemDeliver(c, m) ==
    /\ gemConn[c].st = "open"
    /\ Len(gem.currentMessage) + Len(Concat(m.parts)) <= BufBound
    /\ GemCommit(GemOnMessage(GemState, m),
                 MessageTag(turn["gemini"], m), Whole(turn["gemini"], m), hist)
    /\ turn' = [turn EXCEPT !["gemini"] = TurnAfter(@, m)]
    /\ UNCHANGED <<scenario, interview, sampler, liveVars, dualVars, caller>>

\* the transport reports an error on a connection
GemError(c) ==
    /\ gemConn[c].st \in {"handshaking", "open"}
    /\ GemCommit(GemOnError(GemState), "", <<>>, hist)
    /\ UNCHANGED <<scenario, interview, sampler, liveVars, dualVars, turn, caller>>

\* the close event of a connection
GemClose(c) ==
    /\ gemConn[c].st \in {"handshaking", "open", "closing"}
    /\ GemCommit(GemOnClose(GemState, c), CloseTag(gem), <<>>,
                 IF c = gem.session /\ ~gem.isIntentionallyClosing
                    /\ gem.isExpectingSummary
                 THEN [hist EXCEPT !.n = Len(gem.currentMessage),
                                   !.reconnected = FALSE]
                 ELSE hist)
    /\ UNCHANGED <<scenario, interview, sampler, liveVars, dualVars, turn, caller>>

\* a pending reconnect timer fires: the one reconnectTimeoutId names ...
GemTimerFires ==
    /\ gem.reconnectTimeoutId = "pending"
    /\ Len(gemConn) < ConnBound
    /\ LET S == GemState
       IN  GemCommit(GemReconnectTimer([S EXCEPT !.G.reconnectTimeoutId = "fired"]),
                     "", <<>>, hist)
    /\ UNCHANGED <<scenario, interview, sampler, liveVars, dualVars, turn, caller>>

\* ... or one whose id a later attemptReconnection overwrote
GemStrayTimerFires ==
    /\ gem.strayTimers > 0
    /\ Len(gemConn) < ConnBound
    /\ LET S == GemState
       IN  GemCommit(GemReconnectTimer([S EXCEPT !.G.strayTimers = @ - 1]),
                     "", <<>>, hist)
    /\ UNCHANGED <<scenario, interview, sampler, liveVars, dualVars, turn, caller>>

\* the 1000 ms timer of onopen fires: requestSummary()
GemRerequestFires ==
    /\ gem.rerequestTimers > 0
    /\ LET S == GemState
       IN  \E ok \in BOOLEAN :
              GemCommit(GemRequestSummary([S EXCEPT !.G.rerequestTimers = @ - 1], ok),
                        IF gem.session # 0 THEN "rerequest" ELSE "", <<>>,
                        [hist EXCEPT !.cleared = FALSE])
    /\ UNCHANGED <<scenario, interview, sampler, liveVars, dualVars, turn, caller>>

\* the summary timeout fires
GemSummaryTimeoutFires ==
    /\ gem.summaryTimeoutId = "pending"
    /\ GemCommit(GemSummaryTimeout(GemState), "", <<>>, hist)
    /\ UNCHANGED <<scenario, interview, sampler, liveVars, dualVars, turn, caller>>

\* the caller calls sendFrame
GemCallSendFrame(dataSet12) ==
    /\ \E ok \in BOOLEAN :
          GemCommit(GemSendFrame(GemState, dataSet12, ok), "send", <<>>, hist)
    /\ UNCHANGED <<scenario, interview, sampler, liveVars, dualVars, turn, caller>>

\* the caller calls requestSummary
GemCallRequestSummary ==
    /\ \E ok \in BOOLEAN :
          GemCommit(GemRequestSummary(GemState, ok), "send", <<>>, hist)
    /\ UNCHANGED <<scenario, interview, sampler, liveVars, dualVars, turn, caller>>

\* the caller calls onSummaryComplete
GemCallOnSummaryComplete ==
    /\ ~gem.hasCompletionCallback
    /\ GemCommit(GemOnSummaryComplete(GemState), "", <<>>, hist)
    /\ UNCHANGED <<scenario, interview, sampler, liveVars, dualVars, turn, caller>>

\* the caller calls disconnect()
GemCallDisconnect ==
    /\ GemCommit(GemDisconnect(GemState), "", <<>>,
                 [hist EXCEPT !.cleared = FALSE])
    /\ turn' = [turn EXCEPT !["gemini"] = IF gem.session # 0 THEN TurnNone ELSE @]
    /\ caller' = [caller EXCEPT !["gemini"].last = "disconnect"]
    /\ UNCHANGED <<scenario, interview, sampler, liveVars, dualVars>>

\* the caller calls clearSession()
GemCallClearSession ==
    /\ GemCommit(GemClearSession(GemState), "", <<>>,
                 [hist EXCEPT !.cleared = FALSE])
    /\ turn' = [turn EXCEPT !["gemini"] = IF gem.session # 0 THEN TurnNone ELSE @]
    /\ caller' = [caller EXCEPT !["gemini"].last = "disconnect"]
    /\ UNCHANGED <<scenario, interview, sampler, liveVars, dualVars>>

----------------------------------------------------------------------------
(* DualGeminiSessionManager.  D is [M: the manager's fields, L, C: the      *)
(* fields and connections of its two services, out: the transport calls    *)
(* and queue appends of the running handler].  The model's text of a turn  *)
(* is a sequence of tokens: "Ta", "Tb" are JSON objects with a transcript, *)
(* "R" is a JSON object with a reply, "Tn", "Rn" are JSON objects whose     *)
(* transcript or reply is a number, "x" is text that is not JSON, "F" is a *)
(* markdown code fence.                                                    *)

MgrNew ==
    [ transcriptService |-> FALSE,    \* transcriptService # null
      replyService      |-> FALSE,    \* replyService # null
      mediaStream       |-> FALSE,    \* mediaStream # null
      transcriptQueue   |-> <<>>,
      isReplyGenerating |-> FALSE,
      startAt           |-> "none",   \* the await start() is at: "none", "media", "connecting"
      resolved          |-> {},       \* the services whose connect() promise has resolved
      starts            |-> 0 ]       \* start() calls so far

\* enqueued, submitted: the transcripts appended to transcriptQueue and those
\* handed to replyService.sendText, in order; drained: how many of the latter
\* had waited in the queue for a reply to complete; inFlight: how many were
\* sent and still await the completed turn of the reply session; handed: in
\* the scenario "capture", the chunks the last step handed to
\* transcriptService.sendRealtimeAudio; replyInput: what was transmitted on
\* the session of the reply service, as pairs of the transport call and its
\* payload; stopped: in the scenario "stream", stop() has returned and
\* start() was not called since
FlowNone ==
    [enqueued |-> <<>>, submitted |-> <<>>, drained |-> 0, inFlight |-> 0,
     handed |-> <<>>, replyInput |-> {}, stopped |-> FALSE]

\* the ContinuousStreamingCapture of the manager; a chunk is the number of
\* its onaudioprocess event
CaptureNew ==
    [ exists          |-> FALSE,   \* the manager's streamingCapture # null
      isRunning       |-> FALSE,
      isTranscribing  |-> FALSE,
      audioBuffer     |-> <<>>,
      scriptProcessor |-> FALSE,   \* scriptProcessor # null: audio events arrive
      captured        |-> 0 ]      \* onaudioprocess events so far

\* text.replace(/[fence]json|[fence]/g, '').trim(); the token "F" is a fence
CleanText(text) == Trim(SelectSeq(text, LAMBDA ch : ch # "F"))

\* JSON.parse(cleanText) followed by the property access: the value of
\* property key ("nonstring" for a number), "" if the object has none,
\* "throws" if the text is not JSON
ParsedProperty(text, key) ==
    LET cleanText == CleanText(text)
    IN  IF Len(cleanText) = 1 /\ cleanText[1] \in {"Ta", "Tb", "R", "Tn", "Rn"}
        THEN IF key = "transcript" /\ cleanText[1] = "Ta" THEN "a"
             ELSE IF key = "transcript" /\ cleanText[1] = "Tb" THEN "b"
             ELSE IF key = "reply" /\ cleanText[1] = "R" THEN "r"
             ELSE IF key = "transcript" /\ cleanText[1] = "Tn" THEN "nonstring"
             ELSE IF key = "reply" /\ cleanText[1] = "Rn" THEN "nonstring"
             ELSE ""
        ELSE "throws"

\* what the remote sends to each service of the manager; successive
\* transcripts differ: after n transcripts the next one is "Ta" or "Tb";
\* turns that are no JSON or hold a number are followed in the scenario
\* "stream"
DualOffered(s, n) ==
    { Message(TRUE, <<(<<t>>)>>, FALSE, FALSE) :
         t \in IF s = "transcript"
               THEN {IF n % 2 = 0 THEN "Ta" ELSE "Tb"}
                       \cup (IF scenario = "stream" THEN {"Tn", "x"} ELSE {})
               ELSE {"R", "x", " "} \cup (IF scenario = "stream" THEN {"Rn"} ELSE {}) }
       \cup { Message(FALSE, <<>>, TRUE, FALSE) }

\* LiveApiService.sendText as replyService.sendText
ReplySendText(D, text) ==
    LET D1 == [D EXCEPT !.out = Append(@, CbText("sendText", <<text>>))]
    IN  IF D.L["reply"].session = 0 THEN D1
        ELSE [D1 EXCEPT !.out = Append(@, [cb |-> "sendClientContent",
                                           text |-> <<text>>, to |-> "reply"])]

\* a variant of the capture's audio send that streams the chunk to both
\* services
SendRealtimeAudioToBoth(D, chunk) ==
    LET D1 == [D EXCEPT !.out = Append(@, CbText("sendRealtimeAudio", <<chunk>>))]
        To(E, s) == IF D.L[s].session = 0 THEN E
                    ELSE [E EXCEPT !.out = Append(@, [cb |-> "sendRealtimeInput",
                                                      text |-> <<chunk>>, to |-> s])]
    IN  To(To(D1, "transcript"), "reply")

\* LiveApiService.sendRealtimeAudio as the capture's
\* transcriptService.sendRealtimeAudio
TranscriptSendRealtimeAudio(D, chunk) ==
    LET D1 == [D EXCEPT !.out = Append(@, CbText("sendRealtimeAudio", <<chunk>>))]
    IN  IF D.L["transcript"].session = 0 THEN D1
        ELSE [D1 EXCEPT !.out = Append(@, [cb |-> "sendRealtimeInput",
                                           text |-> <<chunk>>, to |-> "transcript"])]

\* flushAudioBuffer
RECURSIVE FlushAudioBuffer(_)
FlushAudioBuffer(D) ==
    IF D.K.audioBuffer = <<>> THEN D
    ELSE LET buffered == Head(D.K.audioBuffer)
         IN  FlushAudioBuffer(
                 TranscriptSendRealtimeAudio([D EXCEPT !.K.audioBuffer = Tail(@)],
                                             buffered))

\* a variant of setTranscribing that clears the buffer, as stop() does,
\* where setTranscribing flushes it
SetTranscribingDiscards(D, isTranscribing) ==
    LET wasTranscribing == D.K.isTranscribing
        D1 == [D EXCEPT !.K.isTranscribing = isTranscribing]
    IN  IF ~isTranscribing /\ wasTranscribing
        THEN [D1 EXCEPT !.K.audioBuffer = <<>>] ELSE D1

\* setTranscribing
SetTranscribing(D, isTranscribing) ==
    LET wasTranscribing == D.K.isTranscribing
        D1 == [D EXCEPT !.K.isTranscribing = isTranscribing]
    IN  IF ~isTranscribing /\ wasTranscribing THEN FlushAudioBuffer(D1) ELSE D1

\* a variant of the onaudioprocess handler that on overflow drops the chunk
\* it has just pushed (pop() for shift())
OnAudioProcessDropsNewest(D, chunk) ==
    IF ~D.K.isRunning THEN D
    ELSE IF D.K.isTranscribing
         THEN LET D1 == [D EXCEPT !.K.audioBuffer = Append(@, chunk)]
              IN  IF Len(D1.K.audioBuffer) > audioBufferLimit
                  THEN [D1 EXCEPT !.K.audioBuffer = SubSeq(@, 1, Len(@) - 1)]
                  ELSE D1
         ELSE LET D1 == IF D.K.audioBuffer # <<>> THEN FlushAudioBuffer(D) ELSE D
              IN  TranscriptSendRealtimeAudio(D1, chunk)

\* the onaudioprocess handler of startAudioStreaming
OnAudioProcess(D, chunk) ==
    IF ~D.K.isRunning THEN D
    ELSE IF D.K.isTranscribing
         THEN LET D1 == [D EXCEPT !.K.audioBuffer = Append(@, chunk)]
              IN  IF Len(D1.K.audioBuffer) > audioBufferLimit
                  THEN [D1 EXCEPT !.K.audioBuffer = Tail(@)]
                  ELSE D1
         ELSE LET D1 == IF D.K.audioBuffer # <<>> THEN FlushAudioBuffer(D) ELSE D
              IN  TranscriptSendRealtimeAudio(D1, chunk)

\* ContinuousStreamingCapture.start(); hasAudio: the media stream has an
\* audio track and the audio graph could be built
CaptureStart(D, hasAudio) ==
    IF D.L["transcript"].session = 0 \/ D.L["reply"].session = 0 THEN D
    ELSE [D EXCEPT !.K.isRunning = TRUE,
                   !.K.scriptProcessor = hasAudio]

\* ContinuousStreamingCapture.stop(), with stopAudioStreaming and its
\* transcriptService.endAudioStream()
CaptureStop(D) ==
    LET D1 == [D EXCEPT !.K.isRunning = FALSE,
                        !.K.audioBuffer = <<>>,
                        !.K.isTranscribing = FALSE,
                        !.K.scriptProcessor = FALSE]
    IN  IF D.L["transcript"].session = 0 THEN D1
        ELSE [D1 EXCEPT !.out = Append(@, [cb |-> "audioStreamEnd", text |-> <<>>,
                                           to |-> "transcript"])]

\* handleVideoReady of setupVideoAndStreaming
HandleVideoReady(D, hasAudio) ==
    IF ~D.M.mediaStream \/ ~D.M.transcriptService \/ ~D.M.replyService THEN D
    ELSE CaptureStart([D EXCEPT !.K = [CaptureNew EXCEPT !.exists = TRUE,
                                                         !.captured = D.K.captured]],
                      hasAudio)

\* a variant of processTranscriptQueue that takes the newest transcript
ProcessTranscriptQueueNewest(D) ==
    IF ~D.M.replyService \/ D.M.transcriptQueue = <<>> \/ D.M.isReplyGenerating
    THEN D
    ELSE LET n == Len(D.M.transcriptQueue)
             nextTranscript == D.M.transcriptQueue[n]
         IN  ReplySendText([D EXCEPT !.M.transcriptQueue = SubSeq(@, 1, n - 1)],
                           nextTranscript)

\* processTranscriptQueue
ProcessTranscriptQueue(D) ==
    IF ~D.M.replyService \/ D.M.transcriptQueue = <<>> \/ D.M.isReplyGenerating
    THEN D
    ELSE LET nextTranscript == Head(D.M.transcriptQueue)
         IN  ReplySendText([D EXCEPT !.M.transcriptQueue = Tail(@)], nextTranscript)

\* service.disconnect() as the manager calls it
ServiceDisconnect(D, s) ==
    LET S == LiveDisconnect([L |-> D.L[s], C |-> D.C[s], cbs |-> <<>>])
    IN  [D EXCEPT !.L[s] = S.L, !.C[s] = S.C]

\* cleanup
Cleanup(D) ==
    LET D0 == IF D.K.exists THEN [CaptureStop(D) EXCEPT !.K.exists = FALSE] ELSE D
        D1 == IF D0.M.transcriptService THEN ServiceDisconnect(D0, "transcript") ELSE D0
        D2 == IF D1.M.replyService THEN ServiceDisconnect(D1, "reply") ELSE D1
    IN  [D2 EXCEPT !.M.transcriptService = FALSE,
                   !.M.replyService = FALSE,
                   !.M.mediaStream = FALSE]

\* a variant of the transcript service's onModelResponse that puts the
\* transcript at the head of the queue
TranscriptOnModelResponseAtHead(D, text) ==
    LET transcriptText == ParsedProperty(text, "transcript")
        D1 == [D EXCEPT !.out = Append(@, CbText("transcripts.push", <<transcriptText>>))]
    IN  IF transcriptText \in {"throws", ""} THEN D
        ELSE IF transcriptText = "nonstring" THEN D1
        ELSE ProcessTranscriptQueue(
                 [D1 EXCEPT !.M.transcriptQueue = <<transcriptText>> \o @,
                            !.out = Append(@, CbText("push", <<transcriptText>>))])

\* onModelResponse of the transcript service: "transcripts.push" is the
\* record appended to this.transcripts, "push" the transcriptQueue.push; the
\* substring call of the log line between the two throws, inside the try
\* block, when the transcript is not a string
TranscriptOnModelResponse(D, text) ==
    LET transcriptText == ParsedProperty(text, "transcript")
        D1 == [D EXCEPT !.out = Append(@, CbText("transcripts.push", <<transcriptText>>))]
    IN  IF transcriptText \in {"throws", ""} THEN D
        ELSE IF transcriptText = "nonstring" THEN D1
        ELSE ProcessTranscriptQueue(
                 [D1 EXCEPT !.M.transcriptQueue = Append(@, transcriptText),
                            !.out = Append(@, CbText("push", <<transcriptText>>))])

\* onPartialResponse of the reply service
ReplyOnPartialResponse(D) == [D EXCEPT !.M.isReplyGenerating = TRUE]

\* onModelResponse of the reply service: "replies.push" is the record
\* appended to this.replies
ReplyOnModelResponse(D, text) ==
    LET replyText == ParsedProperty(text, "reply")
        D1 == IF replyText \in {"throws", ""} THEN D
              ELSE [D EXCEPT !.out = Append(@, CbText("replies.push", <<replyText>>))]
    IN  ProcessTranscriptQueue([D1 EXCEPT !.M.isReplyGenerating = FALSE])

\* onError of either service: callbacks.onError, status ERROR, cleanup()
ServiceOnError(D) == Cleanup([D EXCEPT !.out = Append(@, Cb("onError"))])

\* the callbacks start() hands to service s
MgrCallback(D, s, e) ==
    IF e.cb = "onError" THEN ServiceOnError(D)
    ELSE IF e.cb = "onModelResponse" /\ s = "transcript"
         THEN TranscriptOnModelResponse(D, e.text)
    ELSE IF e.cb = "onModelResponse" /\ s = "reply"
         THEN ReplyOnModelResponse(D, e.text)
    ELSE IF e.cb = "onPartialResponse" /\ s = "reply"
         THEN ReplyOnPartialResponse(D)
    ELSE D

RECURSIVE MgrCallbacks(_, _, _)
MgrCallbacks(D, s, cbs) ==
    IF cbs = <<>> THEN D
    ELSE MgrCallbacks(MgrCallback(D, s, Head(cbs)), s, Tail(cbs))

\* a handler of service s has run, with result S, and has called back
Handled(D, s, S) ==
    MgrCallbacks([D EXCEPT !.L[s] = S.L, !.C[s] = S.C], s, S.cbs)

\* start(), up to the awaited getDisplayMedia
MgrStart(D) ==
    LET D1 == Cleanup(D)
    IN  [D1 EXCEPT !.M.transcriptQueue = <<>>,
                   !.M.isReplyGenerating = FALSE,
                   !.M.startAt = "media",
                   !.M.resolved = {},
                   !.M.starts = @ + 1]

\* start() from the media stream to the awaited Promise.all: two new
\* services, connect() called on each
MgrStartConnects(D) ==
    LET New(cbs) == LiveConnect([L |-> LiveNew, C |-> <<>>, cbs |-> cbs], FALSE)
    IN  [D EXCEPT !.M.mediaStream = TRUE,
                  !.M.startAt = "connecting",
                  !.L = [s \in Inst |-> New(<<>>).L],
                  !.C = [s \in Inst |-> New(<<>>).C]]

\* the catch block of start(): callbacks.onError, status ERROR, cleanup()
MgrStartCatch(D) ==
    Cleanup([D EXCEPT !.M.startAt = "none", !.out = Append(@, Cb("onError"))])

\* start() after Promise.all
MgrStartConnected(D) ==
    [D EXCEPT !.M.transcriptService = TRUE,
              !.M.replyService = TRUE,
              !.M.startAt = "none"]

\* the connect() promise of service s has resolved
MgrConnectResolved(D, s) ==
    LET D1 == [D EXCEPT !.M.resolved = @ \cup {s}]
    IN  IF D1.M.resolved = Inst THEN MgrStartConnected(D1) ELSE D1

\* stop()
MgrStop(D) ==
    LET D1 == Cleanup(D)
    IN  [D1 EXCEPT !.M.transcriptQueue = <<>>,
                   !.M.isReplyGenerating = FALSE]

----------------------------------------------------------------------------
(* Actions of the manager and its two services *)

DualState == [M |-> mgr, K |-> cap, L |-> live, C |-> liveConn, out |-> <<>>]

ServiceState(s) == [L |-> live[s], C |-> liveConn[s], cbs |-> <<>>]

Texts(out, name) ==
    LET sel == SelectSeq(out, LAMBDA e : e.cb = name)
    IN  [i \in DOMAIN sel |-> sel[i].text[1]]

\* completed: the step is a completed-turn event of the reply session
FlowAfter(f, D, completed) ==
    [ enqueued  |-> f.enqueued \o Texts(D.out, "push"),
      submitted |-> f.submitted \o Texts(D.out, "sendText"),
      drained   |-> IF completed THEN f.drained + CountCb(D.out, "sendText")
                    ELSE f.drained,
      inFlight  |-> IF ~D.M.replyService THEN 0
                    ELSE (IF completed /\ f.inFlight > 0
                          THEN f.inFlight - 1 ELSE f.inFlight)
                         + CountCb(D.out, "sendClientContent"),
      handed    |-> IF scenario = "capture" THEN Texts(D.out, "sendRealtimeAudio")
                    ELSE <<>>,
      replyInput |->
          f.replyInput
             \cup { <<D.out[i].cb, D.out[i].text>> :
                      i \in { j \in DOMAIN D.out :
                                /\ D.out[j].cb \in {"sendClientContent", "sendRealtimeInput",
                                                    "audioStreamEnd"}
                                /\ D.out[j].to = "reply" } },
      stopped   |-> f.stopped ]

DualCommit(D, f, completed) ==
    /\ mgr' = D.M
    /\ cap' = D.K
    /\ live' = D.L
    /\ liveConn' = D.C
    /\ flow' = FlowAfter(f, D, completed)
    /\ last' = Note("manager", IF CountCb(D.out, "onError") > 0 THEN "fatal" ELSE "",
                    <<>>, <<>>)
    /\ UNCHANGED <<scenario, interview, sampler, gemVars, turn, caller, backoff>>

\* the caller calls start(apiKey); no connection of an earlier start() is
\* alive and none of its timers is pending
DualStart ==
    /\ mgr.starts < MaxStarts
    /\ mgr.startAt = "none"
    /\ \A s \in Inst :
          /\ \A c \in DOMAIN liveConn[s] : liveConn[s][c].st = "closed"
          /\ live[s].reconnectTimeoutId # "pending"
          /\ live[s].strayTimers = 0
    /\ DualCommit(MgrStart(DualState), FlowNone, FALSE)

\* getDisplayMedia resolves
DualMediaGranted ==
    /\ mgr.startAt = "media"
    /\ DualCommit(MgrStartConnects(DualState), flow, FALSE)

\* getDisplayMedia rejects
DualMediaDenied ==
    /\ mgr.startAt = "media"
    /\ DualCommit(MgrStartCatch(DualState), flow, FALSE)

\* the caller calls stop()
DualStop ==
    /\ mgr.starts > 0
    /\ DualCommit(MgrStop(DualState), [FlowNone EXCEPT !.stopped = (scenario = "stream")], FALSE)

\* the remote accepts a handshake; the promise of the connect() that start()
\* awaits resolves with it
DualHandshakeOpens(s, c) ==
    /\ liveConn[s][c].st = "handshaking"
    /\ LET S == LiveOnOpen(ServiceState(s), c)
           D == Handled(DualState, s, S)
       IN  DualCommit(IF c = 1 /\ mgr.startAt = "connecting"
                      THEN MgrConnectResolved(D, s) ELSE D,
                      flow, FALSE)

\* the remote rejects a handshake; Promise.all rejects with the connect()
\* that start() awaits
DualHandshakeFails(s, c) ==
    /\ liveConn[s][c].st = "handshaking"
    /\ LET S == LiveConnectCatch(ServiceState(s), c)
           D == Handled(DualState, s, S)
       IN  DualCommit(IF c = 1 /\ mgr.startAt = "connecting"
                      THEN MgrStartCatch(D) ELSE D,
                      flow, FALSE)

\* a message arrives on an open connection
DualMessage(s, c, m) ==
    /\ liveConn[s][c].st = "open"
    /\ Len(live[s].currentMessage) + Len(Concat(m.parts)) <= BufBound
    /\ (s = "transcript" /\ m.parts # <<>>)
          => Len(flow.enqueued) < (IF scenario = "stream" THEN 2 ELSE MaxTranscripts)
    /\ LET S == LiveOnMessage(ServiceState(s), m)
       IN  DualCommit(Handled(DualState, s, S), flow,
                      s = "reply" /\ m.turnComplete)

\* the transport reports an error on a connection
DualError(s, c) ==
    /\ liveConn[s][c].st \in {"handshaking", "open"}
    /\ LET S == LiveOnError(ServiceState(s))
       IN  DualCommit(Handled(DualState, s, S), flow, FALSE)

\* the close event of a connection
DualClose(s, c) ==
    /\ liveConn[s][c].st \in {"handshaking", "open", "closing"}
    /\ LET S == LiveOnClose(ServiceState(s), c)
       IN  DualCommit(Handled(DualState, s, S), flow, FALSE)

\* the pending reconnect timer of a service fires; the manager calls
\* connect() once on each service, so no timer id is ever overwritten
DualTimerFires(s) ==
    /\ live[s].reconnectTimeoutId = "pending"
    /\ Len(liveConn[s]) < ConnBound
    /\ LET S0 == ServiceState(s)
           S == LiveReconnectTimer([S0 EXCEPT !.L.reconnectTimeoutId = "fired"])
       IN  DualCommit(Handled(DualState, s, S), flow, FALSE)

\* the video element fires loadedmetadata, or is ready when start() reaches
\* setupVideoAndStreaming: one capture is created per start()
DualVideoReady ==
    /\ ~cap.exists
    /\ cap.captured = 0
    /\ \E hasAudio \in BOOLEAN :
          DualCommit(HandleVideoReady(DualState, hasAudio), flow, FALSE)

\* the script processor delivers an audio chunk
DualAudioProcess ==
    /\ cap.scriptProcessor
    /\ cap.captured < (IF scenario = "capture" THEN audioBufferLimit + MaxChunks
                       ELSE MaxChunks)
    /\ DualCommit(OnAudioProcess([DualState EXCEPT !.K.captured = @ + 1],
                                 cap.captured + 1),
                  flow, FALSE)

\* the owner of the capture calls setTranscribing(isTranscribing)
DualSetTranscribing(isTranscribing) ==
    /\ cap.exists
    /\ DualCommit(SetTranscribing(DualState, isTranscribing), flow, FALSE)

----------------------------------------------------------------------------
(* InterviewMode: the onModelResponse callback of handleStart.  The text of *)
(* a Turn is a sequence of tokens: "T:" and "R:" stand for an occurrence of *)
(* TRANSCRIPT: and of REPLY: (in any case), "\n" is a line break, " " a     *)
(* blank, "w" a run of other characters.                                   *)

InterviewNew == [transcript |-> <<>>, replies |-> <<>>, text |-> <<>>]

\* text.match(/TRANSCRIPT:\s*(.+?)(?=\n\s*REPLY:)/is): the capture with its
\* blanks trimmed.  The match starts at the first TRANSCRIPT: that has, at
\* least one character later, a line break followed by blanks and REPLY:;
\* \s* takes all the blanks it can and the capture ends at the first such
\* line break after it; if there is none the capture is made of blanks
TranscriptMatch(text) ==
    LET Ahead(k) == /\ text[k] = "\n"
                    /\ \E r \in k + 1 .. Len(text) :
                          /\ text[r] = "R:"
                          /\ \A j \in k + 1 .. r - 1 : text[j] \in {" ", "\n"}
        Ends(i) == {k \in i + 2 .. Len(text) : Ahead(k)}
        starts == {i \in DOMAIN text : text[i] = "T:" /\ Ends(i) # {}}
    IN  IF starts = {} THEN [found |-> FALSE, text |-> <<>>]
        ELSE LET i == CHOOSE x \in starts : \A y \in starts : x <= y
                 blanks == {j \in i + 1 .. Len(text) :
                               \A x \in i + 1 .. j : text[x] \in {" ", "\n"}}
                 late == {k \in Ends(i) : k >= i + Cardinality(blanks) + 2}
             IN  IF late = {} THEN [found |-> TRUE, text |-> <<>>]
                 ELSE LET k == CHOOSE x \in late : \A y \in late : x <= y
                      IN  [found |-> TRUE, text |-> Trim(SubSeq(text, i + 1, k - 1))]

\* text.match(/REPLY:\s*(.+)/is): the capture, trimmed; the match starts at
\* the first REPLY: that is not the end of the text
ReplyMatch(text) ==
    LET starts == {i \in DOMAIN text : text[i] = "R:" /\ i < Len(text)}
    IN  IF starts = {} THEN [found |-> FALSE, text |-> <<>>]
        ELSE LET i == CHOOSE x \in starts : \A y \in starts : x <= y
             IN  [found |-> TRUE, text |-> Trim(SubSeq(text, i + 1, Len(text)))]

\* /^(TRANSCRIPT|REPLY):/im.test(aiReply): a label at the start of a line
HasLeakedLabels(aiReply) ==
    \E i \in DOMAIN aiReply :
        /\ aiReply[i] \in {"T:", "R:"}
        /\ i = 1 \/ aiReply[i - 1] = "\n"

\* a variant of onModelResponse that lists the reply whatever it contains
InterviewOnModelResponseUnfiltered(I, text) ==
    LET transcriptMatch == TranscriptMatch(text)
        replyMatch == ReplyMatch(text)
        I1 == IF transcriptMatch.found
              THEN [I EXCEPT !.transcript = Append(@, transcriptMatch.text)]
              ELSE I
    IN  IF replyMatch.found
        THEN [I1 EXCEPT !.replies = Append(@, replyMatch.text)]
        ELSE IF ~transcriptMatch.found
             THEN [I1 EXCEPT !.replies =
                       Append(@, <<"No reply found - model did not follow format">>)]
             ELSE I1

\* onModelResponse(text); I: the lists of the component
InterviewOnModelResponse(I, text) ==
    LET transcriptMatch == TranscriptMatch(text)
        replyMatch == ReplyMatch(text)
        I1 == IF transcriptMatch.found
              THEN [I EXCEPT !.transcript = Append(@, transcriptMatch.text)]
              ELSE I
    IN  IF replyMatch.found
        THEN IF ~HasLeakedLabels(replyMatch.text)
             THEN [I1 EXCEPT !.replies = Append(@, replyMatch.text)]
             ELSE I1
        ELSE IF ~transcriptMatch.found
             THEN [I1 EXCEPT !.replies =
                       Append(@, <<"No reply found - model did not follow format">>)]
             ELSE I1

\* the only session of the component completes its first Turn: a text that
\* is not blank and has no blanks at either end (LiveApiService trims it)
InterviewTurn(text) ==
    /\ interview.text = <<>>
    /\ text # <<>> /\ Trim(text) = text
    /\ interview' = [InterviewOnModelResponse(interview, text) EXCEPT !.text = text]
    /\ UNCHANGED <<scenario, live, liveConn, gem, gemConn, localStorage, mgr, cap,
                   turn, hist, flow, caller, last, backoff, sampler>>

----------------------------------------------------------------------------
(* DynamicSampling.  S is the record of its fields.  The callbacks chained  *)
(* on operationQueue are the records of ops, oldest first; one chained on  *)
(* a promise that start() or stop() has replaced still runs, in the order  *)
(* of its own chain.                                                       *)

SamplerNew ==
    [ captureTimeoutId  |-> "null",   \* "pending": the timer it names is yet to fire
      strayTimers       |-> 0,        \* pending capture timers whose id was overwritten
      summaryIntervalId |-> FALSE,    \* summaryIntervalId # null
      strayIntervals    |-> 0,        \* running intervals whose id was overwritten
      isProcessingReset |-> FALSE,
      nextCaptureId     |-> 1,
      captureCount      |-> 0,
      lastFrameData     |-> FALSE,    \* lastFrameData # null
      chain             |-> 0,        \* the promise operationQueue names
      ops               |-> <<>>,     \* [kind, at: "queued", "audio" (awaiting
                                      \* captureAudioSnippet) or "delay" (awaiting
                                      \* the 500 ms of requestSummary), chain]
      starts            |-> 0,        \* calls of start() that passed its guard
      stopped           |-> FALSE,    \* stop() has returned, start() not called since
      sent              |-> FALSE,    \* the last step called geminiService.sendFrame
      armed             |-> FALSE ]   \* the last step called scheduleNextCapture

\* scheduleNextCapture(delay)
ScheduleNextCapture(S) ==
    [S EXCEPT !.strayTimers = IF S.captureTimeoutId = "pending" THEN @ + 1 ELSE @,
              !.captureTimeoutId = "pending",
              !.armed = TRUE]

\* the callbacks of ops that run next: queued, with nothing of their chain
\* before them.  They run as microtasks, before any other event is handled
SamplerRunnable ==
    {i \in DOMAIN sampler.ops :
        /\ sampler.ops[i].at = "queued"
        /\ \A j \in 1 .. i - 1 : sampler.ops[j].chain # sampler.ops[i].chain}

\* the step leaves the fields S; done: the callback of ops that has
\* completed (0: none)
SamplerCommit(S, done) ==
    /\ LET ops == IF done = 0 THEN S.ops
                  ELSE [j \in 1 .. Len(S.ops) - 1 |->
                           IF j < done THEN S.ops[j] ELSE S.ops[j + 1]]
           \* the promises still referred to, numbered in the order of their creation
           ids == {S.chain} \cup {ops[j].chain : j \in DOMAIN ops}
           Rank(c) == Cardinality({d \in ids : d < c})
       IN  sampler' = [S EXCEPT !.ops = [j \in DOMAIN ops |->
                                           [ops[j] EXCEPT !.chain = Rank(@)]],
                                !.chain = Rank(@)]
    /\ UNCHANGED <<scenario, live, liveConn, gem, gemConn, localStorage, mgr, cap,
                   turn, hist, flow, caller, last, backoff, interview>>

\* the owner calls start(); connected: geminiService?.isConnected()
SamplerStart(connected) ==
    /\ SamplerRunnable = {}
    /\ sampler.starts < MaxSamplerStarts
    /\ LET S == [sampler EXCEPT !.sent = FALSE, !.armed = FALSE]
       IN  IF ~connected THEN SamplerCommit(S, 0)
           ELSE SamplerCommit(
                    ScheduleNextCapture(
                        [S EXCEPT !.captureCount = 0,
                                  !.nextCaptureId = 1,
                                  !.isProcessingReset = FALSE,
                                  !.chain = IF \E j \in DOMAIN S.ops : S.ops[j].chain = @
                                            THEN @ + 1 ELSE @,
                                  !.lastFrameData = FALSE,
                                  !.strayIntervals = IF S.summaryIntervalId THEN @ + 1 ELSE @,
                                  !.summaryIntervalId = TRUE,
                                  !.starts = @ + 1,
                                  !.stopped = FALSE]), 0)

\* the owner calls stop()
SamplerStop ==
    /\ SamplerRunnable = {}
    /\ sampler.starts > 0
    /\ SamplerCommit([sampler EXCEPT !.captureTimeoutId = "null",
                                     !.summaryIntervalId = FALSE,
                                     !.captureCount = 0,
                                     !.nextCaptureId = 1,
                                     !.lastFrameData = FALSE,
                                     !.chain = IF \E j \in DOMAIN sampler.ops :
                                                     sampler.ops[j].chain = @
                                               THEN @ + 1 ELSE @,
                                     !.isProcessingReset = FALSE,
                                     !.stopped = TRUE,
                                     !.sent = FALSE,
                                     !.armed = FALSE], 0)

\* a capture timer fires (stray: one whose id was overwritten):
\* queueCaptureOperation
SamplerTimerFires(stray) ==
    /\ SamplerRunnable = {}
    /\ Len(sampler.ops) < MaxOps
    /\ IF stray THEN sampler.strayTimers > 0 ELSE sampler.captureTimeoutId = "pending"
    /\ LET S == [sampler EXCEPT !.sent = FALSE, !.armed = FALSE]
           S1 == IF stray THEN [S EXCEPT !.strayTimers = @ - 1]
                 ELSE [S EXCEPT !.captureTimeoutId = "fired"]
       IN  SamplerCommit([S1 EXCEPT !.ops = Append(@, [kind |-> "capture", at |-> "queued",
                                                       chain |-> S.chain])], 0)

\* the summary interval fires (stray: one whose id was overwritten):
\* queueSummaryRequest
SamplerIntervalFires(stray) ==
    /\ SamplerRunnable = {}
    /\ Len(sampler.ops) < MaxOps
    /\ IF stray THEN sampler.strayIntervals > 0 ELSE sampler.summaryIntervalId
    /\ LET S == [sampler EXCEPT !.sent = FALSE, !.armed = FALSE]
       IN  SamplerCommit([S EXCEPT !.ops = Append(@, [kind |-> "summary", at |-> "queued",
                                                      chain |-> S.chain])], 0)

\* a chained callback runs, up to its first await or its end.  outcome is
\* what it finds: "notReady" (no video or canvas, the service not connected,
\* or a video without dimensions), "inactive" (the media stream), "noContext"
\* (canvas.getContext fails), "noRecorder" (no recorder that is recording),
\* "recording"
SamplerOperationRuns(i, outcome) ==
    /\ i \in SamplerRunnable
    /\ LET S == [sampler EXCEPT !.sent = FALSE, !.armed = FALSE]
           taken == [S EXCEPT !.captureCount = S.nextCaptureId,
                              !.nextCaptureId = @ + 1]
           framed == [taken EXCEPT !.lastFrameData = TRUE]
       IN  IF S.ops[i].kind = "summary"
           THEN \* requestSummary, up to the awaited 500 ms
                IF outcome = "notReady" THEN SamplerCommit(S, i)
                ELSE SamplerCommit([S EXCEPT !.isProcessingReset = TRUE,
                                             !.ops[i].at = "delay"], 0)
           ELSE IF S.isProcessingReset THEN SamplerCommit(S, i)
           \* captureAndAnalyze, up to the awaited captureAudioSnippet
           ELSE IF outcome = "notReady" THEN SamplerCommit(ScheduleNextCapture(S), i)
           ELSE IF outcome = "inactive" THEN SamplerCommit(S, i)
           ELSE /\ S.nextCaptureId <= MaxCaptures
                /\ IF outcome = "noContext"
                   THEN SamplerCommit(ScheduleNextCapture(taken), i)
                   ELSE IF outcome = "noRecorder"
                   THEN SamplerCommit(ScheduleNextCapture([framed EXCEPT !.sent = TRUE]), i)
                   ELSE SamplerCommit([framed EXCEPT !.ops[i].at = "audio"], 0)

\* the await of a suspended callback settles; ok: captureAudioSnippet
\* resolves (it rejects otherwise)
SamplerResumes(i, ok) ==
    /\ SamplerRunnable = {}
    /\ i \in DOMAIN sampler.ops
    /\ sampler.ops[i].at \in {"audio", "delay"}
    /\ LET S == [sampler EXCEPT !.sent = FALSE, !.armed = FALSE]
       IN  IF S.ops[i].at = "delay"
           THEN \* requestSummary after the delay: sendTextOnly and the reset
                SamplerCommit([S EXCEPT !.captureCount = 0,
                                        !.nextCaptureId = 1,
                                        !.isProcessingReset = FALSE], i)
           ELSE IF S.isProcessingReset THEN SamplerCommit(S, i)
           ELSE SamplerCommit(ScheduleNextCapture([S EXCEPT !.sent = TRUE]), i)

----------------------------------------------------------------------------
(* The specifications *)

\* the state after construction; stored: what localStorage holds from an
\* earlier run of the program
NewState(sc, stored) ==
    /\ scenario = sc
    /\ live = [s \in Inst |-> LiveNew]
    /\ liveConn = [s \in Inst |-> <<>>]
    /\ gem = GemNew(stored)
    /\ gemConn = <<>>
    /\ localStorage = stored
    /\ mgr = MgrNew
    /\ cap = CaptureNew
    /\ turn = [s \in Objects |-> TurnNone]
    /\ hist = HistNone
    /\ flow = FlowNone
    /\ caller = [s \in Objects |-> [last |-> "none", connects |-> 0]]
    /\ last = NoNote
    /\ backoff = [s \in Objects |-> <<>>]
    /\ interview = InterviewNew
    /\ sampler = SamplerNew

\* the connections of one session object, of either class, driven by its
\* caller and the remote
SpecLifecycle ==
    /\ \/ NewState("live", 0)
       \/ \E stored \in {0, 1} : NewState("gemini", stored)
    /\ [][ \/ /\ scenario = "live"
              /\ \E s \in {"transcript"} :
                    \/ LiveCallConnect(s)
                    \/ LiveCallDisconnect(s)
                    \/ LiveTimerFires(s)
                    \/ LiveStrayTimerFires(s)
                    \/ \E c \in DOMAIN liveConn[s] :
                          \/ LiveHandshakeOpens(s, c)
                          \/ LiveHandshakeFails(s, c)
                          \/ LiveError(s, c)
                          \/ LiveClose(s, c)
                          \/ \E m \in Offered : LiveMessage(s, c, m)
           \/ /\ scenario = "gemini"
              /\ \/ GemCallConnect
                 \/ GemCallDisconnect
                 \/ GemCallClearSession
                 \/ GemTimerFires
                 \/ GemStrayTimerFires
                 \/ \E c \in DOMAIN gemConn :
                       \/ GemHandshakeOpens(c)
                       \/ \E notFound \in BOOLEAN : GemHandshakeFails(c, notFound)
                       \/ GemError(c)
                       \/ GemClose(c)
                       \/ \E m \in GemOffered : GemDeliver(c, m) ]_vars

\* the turns of the first connection of a session object, of either class
SpecTurns ==
    /\ \E sc \in {"turns", "gturns"} : NewState(sc, 0)
    /\ [][ \/ /\ scenario = "turns"
              /\ \E s \in {"transcript"} :
                    \/ LiveCallConnect(s)
                    \/ LiveCallDisconnect(s)
                    \/ \E c \in DOMAIN liveConn[s] :
                          \/ LiveHandshakeOpens(s, c)
                          \/ LiveClose(s, c)
                          \/ \E m \in Offered : LiveMessage(s, c, m)
           \/ /\ scenario = "gturns"
              /\ \/ GemCallConnect
                 \/ GemCallDisconnect
                 \/ \E c \in DOMAIN gemConn :
                       \/ GemHandshakeOpens(c)
                       \/ GemClose(c)
                       \/ \E m \in GemOffered : GemDeliver(c, m) ]_vars

SummaryNext ==
    /\ scenario = "gsummary"
    /\ \/ GemCallConnect
       \/ GemCallDisconnect
       \/ GemCallOnSummaryComplete
       \/ GemCallRequestSummary
       \/ \E dataSet12 \in BOOLEAN : GemCallSendFrame(dataSet12)
       \/ GemTimerFires
       \/ GemRerequestFires
       \/ GemSummaryTimeoutFires
       \/ \E c \in DOMAIN gemConn :
             \/ GemHandshakeOpens(c)
             \/ GemClose(c)
             \/ \E m \in GemOffered : GemDeliver(c, m)

\* a GeminiService whose caller asks for summaries
SpecSummary ==
    /\ \E stored \in {0, 1} : NewState("gsummary", stored)
    /\ [][SummaryNext]_vars

\* the same, with the timers the service has set firing in the end: a
\* setTimeout callback that stays pending is run by the event loop; what the
\* caller and the remote do is left to them
SpecSummaryFair ==
    /\ SpecSummary
    /\ WF_vars(GemSummaryTimeoutFires)
    /\ WF_vars(GemRerequestFires)
    /\ WF_vars(GemTimerFires)

\* the reconnect attempts of one session object, of either class, followed
\* until the attempt counter has passed its maximum
SpecRetry ==
    /\ \/ NewState("retry", 0)
       \/ \E stored \in {0, 1} : NewState("gretry", stored)
    /\ [][ \/ /\ scenario = "retry"
              /\ \E s \in {"transcript"} :
                    \/ LiveCallConnect(s)
                    \/ LiveCallDisconnect(s)
                    \/ LiveTimerFires(s)
                    \/ LiveStrayTimerFires(s)
                    \/ \E c \in DOMAIN liveConn[s] :
                          \/ LiveHandshakeOpens(s, c)
                          \/ LiveHandshakeFails(s, c)
                          \/ LiveClose(s, c)
           \/ /\ scenario = "gretry"
              /\ \/ GemCallConnect
                 \/ GemCallDisconnect
                 \/ GemCallClearSession
                 \/ GemTimerFires
                 \/ GemStrayTimerFires
                 \/ \E c \in DOMAIN gemConn :
                       \/ GemHandshakeOpens(c)
                       \/ \E notFound \in BOOLEAN : GemHandshakeFails(c, notFound)
                       \/ GemClose(c)
                       \/ \E m \in GemOffered : GemDeliver(c, m) ]_vars

\* the same, with every reconnect timer firing in the end and the remote
\* accepting or rejecting in the end every handshake
SpecRetryFair ==
    /\ SpecRetry
    /\ WF_vars(LiveTimerFires("transcript") \/ LiveStrayTimerFires("transcript"))
    /\ WF_vars(GemTimerFires \/ GemStrayTimerFires)
    /\ WF_vars(\E c \in DOMAIN liveConn["transcript"] :
                  LiveHandshakeOpens("transcript", c) \/ LiveHandshakeFails("transcript", c))
    /\ WF_vars(\E c \in DOMAIN gemConn :
                  GemHandshakeOpens(c) \/ \E notFound \in BOOLEAN : GemHandshakeFails(c, notFound))

\* the manager and its two services, driven by the caller and the remote
SpecDual ==
    /\ NewState("dual", 0)
    /\ [][ /\ scenario = "dual"
           /\ \/ DualStart
              \/ DualMediaGranted
              \/ DualMediaDenied
              \/ DualStop
              \/ \E s \in Inst :
                    \/ DualTimerFires(s)
                    \/ \E c \in DOMAIN liveConn[s] :
                          \/ DualHandshakeOpens(s, c)
                          \/ DualHandshakeFails(s, c)
                          \/ DualError(s, c)
                          \/ DualClose(s, c)
                          \/ \E m \in DualOffered(s, Len(flow.enqueued)) : DualMessage(s, c, m) ]_vars

\* the same, with the remote ending in the end every handshake it has been
\* asked for and every turn of the reply session it has started
SpecDualFair ==
    /\ SpecDual
    /\ WF_vars(\E s \in Inst : \E c \in DOMAIN liveConn[s] : DualHandshakeOpens(s, c))
    /\ WF_vars(\E c \in DOMAIN liveConn["reply"] :
                  DualMessage("reply", c, Message(FALSE, <<>>, TRUE, FALSE)))

\* the manager, its two services and the capture that streams audio to the
\* transcript session
SpecStream ==
    /\ NewState("stream", 0)
    /\ [][ /\ scenario = "stream"
           /\ \/ DualStart
              \/ DualMediaGranted
              \/ DualStop
              \/ DualVideoReady
              \/ DualAudioProcess
              \/ \E s \in Inst : \E c \in DOMAIN liveConn[s] :
                    \/ DualHandshakeOpens(s, c)
                    \/ DualError(s, c)
                    \/ DualClose(s, c)
                    \/ \E m \in DualOffered(s, Len(flow.enqueued)) : DualMessage(s, c, m) ]_vars

\* a session object of either class whose caller calls the send methods
SpecSends ==
    /\ NewState("sends", 0) \/ \E stored \in {0, 1} : NewState("gsummary", stored)
    /\ [][ \/ /\ scenario = "sends"
              /\ \E s \in {"transcript"} :
                    \/ LiveCallConnect(s)
                    \/ LiveCallDisconnect(s)
                    \/ LiveTimerFires(s)
                    \/ \E op \in {"sendRealtimeAudio", "sendVideoFrame", "sendText",
                                   "endAudioStream"} : LiveCallSend(s, op)
                    \/ \E c \in DOMAIN liveConn[s] :
                          \/ LiveHandshakeOpens(s, c)
                          \/ LiveClose(s, c)
                          \/ \E m \in Offered : LiveMessage(s, c, m)
           \/ SummaryNext ]_vars

\* the capture of a started manager, its owner switching buffering on and
\* off, followed for more chunks than the audio buffer may hold
SpecCapture ==
    /\ NewState("capture", 0)
    /\ [][ /\ scenario = "capture"
           /\ \/ DualStart
              \/ DualMediaGranted
              \/ DualStop
              \/ DualVideoReady
              \/ DualAudioProcess
              \/ \E isTranscribing \in BOOLEAN : DualSetTranscribing(isTranscribing)
              \/ \E s \in Inst : \E c \in DOMAIN liveConn[s] :
                    \/ DualHandshakeOpens(s, c)
                    \/ DualClose(s, c) ]_vars

\* a DynamicSampling object, its owner, its timers and the callbacks chained
\* on its operation queue
SpecSampling ==
    /\ NewState("sampling", 0)
    /\ [][ /\ scenario = "sampling"
           /\ \/ \E connected \in BOOLEAN : SamplerStart(connected)
              \/ SamplerStop
              \/ \E stray \in BOOLEAN : SamplerTimerFires(stray)
              \/ \E stray \in BOOLEAN : SamplerIntervalFires(stray)
              \/ \E i \in DOMAIN sampler.ops :
                    \/ \E outcome \in {"notReady", "inactive", "noContext",
                                        "noRecorder", "recording"} :
                          SamplerOperationRuns(i, outcome)
                    \/ \E ok \in BOOLEAN : SamplerResumes(i, ok) ]_vars

\* the first Turn the interview pipeline handles, over every text of up to
\* MaxText tokens
SpecInterview ==
    /\ NewState("interview", 0)
    /\ [][\E text \in SeqsUpTo({"T:", "R:", "\n", " ", "w"}, MaxText) :
             InterviewTurn(text)]_vars

----------------------------------------------------------------------------
(* Properties *)

TurnComplete == Message(FALSE, <<>>, TRUE, FALSE)

Open(conns) == {c \in DOMAIN conns : conns[c].st = "open"}

\* C1: in DualGeminiSessionManager at most one transcript handed to the reply
\* session by processTranscriptQueue is still awaiting the completed-turn
\* event of the reply session, whatever the interleaving of transcript turns
\* and reply events.
C1_OneInFlight == flow.inFlight <= 1

\* C2: the transcripts handed to replyService.sendText are, in order, a prefix
\* of the transcripts appended to transcriptQueue since the last start() or
\* stop(), and the queue holds exactly the rest: nothing is reordered,
\* duplicated or skipped.
C2_FifoPrefix ==
    /\ Len(flow.submitted) <= Len(flow.enqueued)
    /\ flow.submitted = SubSeq(flow.enqueued, 1, Len(flow.submitted))
    /\ flow.enqueued = flow.submitted \o mgr.transcriptQueue

\* three transcripts were submitted in their order of arrival, two of them
\* after waiting in the queue for a reply to complete
C2_Witness ==
    /\ Len(flow.submitted) >= 3
    /\ flow.drained >= 2
    /\ flow.submitted = flow.enqueued

\* C3: in GeminiService, after a disconnect that interrupted an expected
\* summary with text in the buffer and a reconnection that succeeded, the
\* buffer is empty when the summary re-request is issued, and no character
\* buffered before the disconnect is part of the Turn emitted afterwards.
C3_BufferClear ==
    [][ /\ (GemRerequestFires /\ hist.cleared /\ gem.session # 0)
             => gem.currentMessage = <<>>
        /\ \A c \in DOMAIN gemConn, m \in GemOffered :
             (GemDeliver(c, m) /\ m.turnComplete /\ hist.reconnected)
                => Trim(SubSeq(gem.currentMessage, 1, hist.n)) = <<>> ]_vars

\* C4: a LiveApiService or GeminiService object never has two connections
\* open at once, whatever the interleaving of connect() calls, reconnect
\* timers, close events and disconnect().
C4_OneOpenConnection ==
    /\ \A s \in Inst : Cardinality(Open(liveConn[s])) <= 1
    /\ Cardinality(Open(gemConn)) <= 1

\* C5: after disconnect() and until the caller calls connect() again no
\* automatic reconnection takes place: no connection requested by a reconnect
\* timer becomes the session of the object.
C5_NoReconnectAfterDisconnect ==
    /\ \A s \in Inst :
         (caller[s].last = "disconnect" /\ LiveIsConnected(live[s]))
            => ~liveConn[s][live[s].session].auto
    /\ (caller["gemini"].last = "disconnect" /\ GemIsConnected(gem))
            => ~gemConn[gem.session].auto

\* C6: when the remote rejects the handshake of a GeminiService reconnect
\* attempt that carried a resumption handle with 'not found', the service
\* retries once without a handle and does not invoke onError for the rejection.
C6_NotFoundRetry ==
    [][ \A c \in DOMAIN gemConn :
          (GemHandshakeFails(c, TRUE) /\ gemConn[c].auto /\ gemConn[c].handle # 0)
             => LET S == GemConnectCatch(GemState, c, TRUE)
                IN  /\ CountCb(S.cbs, "live.connect") = 1
                    /\ CountCb(S.cbs, "onError") = 0 ]_vars

\* an unintentional close happened with the attempt counter below the maximum
Lost(L) == ~L.isIntentionallyClosing /\ L.reconnectAttempts < maxReconnectAttempts

\* attemptReconnection ran: the counter is one higher and a timer is pending
Rescheduled(L, L1) ==
    /\ L1.reconnectAttempts = L.reconnectAttempts + 1
    /\ L1.reconnectTimeoutId = "pending"

\* C7 as stated: on every unintentional close with the attempt counter below
\* 3 the session increments the counter and schedules a reconnect, for
\* GeminiService whether or not a resumption handle is stored.
C7_AlwaysRescheduled ==
    [][ /\ \A s \in Inst : \A c \in DOMAIN liveConn[s] :
             (Lost(live[s]) /\ LiveClose(s, c)) => Rescheduled(live[s], live'[s])
        /\ \A c \in DOMAIN gemConn :
             (Lost(gem) /\ GemClose(c)) => Rescheduled(gem, gem') ]_vars

\* C7: on every unintentional close with the attempt counter below 3 a
\* LiveApiService increments the counter and schedules a reconnect; a
\* GeminiService does so if a resumption handle is stored, and otherwise
\* leaves the counter and the timer alone and invokes onClose.
C7_RescheduledWithHandle ==
    [][ /\ \A s \in Inst : \A c \in DOMAIN liveConn[s] :
             (Lost(live[s]) /\ LiveClose(s, c)) => Rescheduled(live[s], live'[s])
        /\ \A c \in DOMAIN gemConn :
             (Lost(gem) /\ GemClose(c))
                => IF gem.currentSessionHandle # 0
                   THEN Rescheduled(gem, gem')
                   ELSE /\ gem'.reconnectAttempts = gem.reconnectAttempts
                        /\ gem'.reconnectTimeoutId = gem.reconnectTimeoutId
                        /\ gem'.strayTimers = gem.strayTimers
                        /\ CountCb(GemOnClose(GemState, c).cbs, "onClose") = 1 ]_vars

\* a GeminiService without a stored handle lost its connection below the
\* maximum and no reconnect is pending
C7_Witness ==
    /\ last.tag = "lost"
    /\ last.inst = "gemini"
    /\ gem.currentSessionHandle = 0
    /\ gem.reconnectTimeoutId # "pending"
    /\ gem.strayTimers = 0

\* C8: after every turnComplete of the reply session isReplyGenerating is
\* false and, if transcriptQueue was not empty, its head has been handed to
\* the reply session in the same step.
C8_ReplyTurnComplete ==
    [][ \A c \in DOMAIN liveConn["reply"] :
          DualMessage("reply", c, TurnComplete)
             => /\ ~mgr'.isReplyGenerating
                /\ mgr.transcriptQueue # <<>>
                      => flow'.submitted =
                            Append(flow.submitted, Head(mgr.transcriptQueue)) ]_vars

\* the callback by which an object emits a Turn
TurnCallback(s) == IF s = "gemini" THEN "onMessage" ELSE "onModelResponse"

\* a turnComplete was handled in the last step
Completed == last.tag \in {"turn", "resumed"}

\* C9 as stated: the fragments received since the buffer was empty, followed
\* by a turnComplete, give exactly one Turn, whose text is the trimmed
\* concatenation of the fragments in arrival order.
C9_AlwaysOneTurn ==
    (Completed /\ last.whole # <<>>)
       => last.turns = <<CbText(TurnCallback(last.inst), Trim(last.whole))>>

\* C9: the fragments received since the buffer was empty, followed by a
\* turnComplete, give exactly one Turn, whose text is the trimmed
\* concatenation of the fragments in arrival order, if that text is not
\* empty, and no Turn if it is.
C9_TurnIsTrimmedConcatenation ==
    Completed
       => last.turns = IF Trim(last.whole) # <<>>
                       THEN <<CbText(TurnCallback(last.inst), Trim(last.whole))>>
                       ELSE <<>>

\* "a", " ", "b" and a turnComplete gave the one Turn "a b"
C9_Witness ==
    /\ Completed
    /\ last.whole = <<"a", " ", "b">>
    /\ last.turns = <<CbText("onModelResponse", <<"a", " ", "b">>)>>

\* C10: an interrupted signal that is not also a turnComplete emits no Turn
\* and changes nothing but the turn-started flag, which it resets: the buffer
\* keeps what it held, extended by the fragments of the same message; and
\* the Turn of a turn that was interrupted has the text received before and
\* after the signal.
C10_InterruptedKeepsBuffer ==
    [][ \A s \in Inst :
          LET before == turn[s].text
              after  == turn'[s].text
          IN  /\ (last'.inst = s /\ last'.tag = "interrupted")
                    => /\ live'[s] =
                             [live[s] EXCEPT
                                 !.currentMessage =
                                     @ \o SubSeq(after, Len(before) + 1, Len(after)),
                                 !.hasSignaledTurnStart = FALSE]
                       /\ liveConn' = liveConn
                       /\ last'.turns = <<>>
              /\ (last'.inst = s /\ last'.tag = "resumed" /\ Trim(last'.whole) # <<>>)
                    => last'.turns = <<CbText("onModelResponse", Trim(last'.whole))>>
      ]_vars

\* "a", an interrupted signal, "b" and a turnComplete gave the one Turn "ab"
C10_Witness ==
    /\ last.tag = "resumed"
    /\ last.whole = <<"a", "b">>
    /\ last.turns = <<CbText("onModelResponse", <<"a", "b">>)>>

\* the buffer of an object
\* C11: after every turnComplete the accumulation buffer is empty and, in a
\* LiveApiService, hasSignaledTurnStart is false, whether or not a Turn was
\* emitted; a Turn is emitted if and only if the buffer, with the fragments
\* of the same message appended, is not empty once trimmed.
C11_TurnCompleteResets ==
    [][ \A s \in Objects :
          (last'.inst = s /\ last'.tag \in {"turn", "resumed"})
             => LET received == SubSeq(last'.whole, Len(turn[s].text) + 1,
                                       Len(last'.whole))
                    currentMessage == IF s = "gemini" THEN gem.currentMessage
                                      ELSE live[s].currentMessage
                    buffer == currentMessage \o received
                IN  /\ currentMessage' = <<>>
                    /\ s \in Inst => ~live'[s].hasSignaledTurnStart
                    /\ (last'.turns # <<>>) <=> (Trim(buffer) # <<>>) ]_vars

\* a turnComplete found only whitespace in the buffer of a LiveApiService:
\* no Turn was emitted, the buffer is empty and the flag is reset
C11_Witness ==
    /\ Completed
    /\ last.inst = "transcript"
    /\ last.whole = <<" ", " ">>
    /\ last.turns = <<>>
    /\ live["transcript"].currentMessage = <<>>
    /\ ~live["transcript"].hasSignaledTurnStart
    /\ turn["transcript"] = TurnNone

\* C12 as stated: a LiveApiService invokes onModelTurnStart once when a
\* message brings text while hasSignaledTurnStart is false, and for no other
\* message.
C12_StartsOnFirstText ==
    [][ \A s \in Inst :
          (last'.inst = s /\ last'.msg # "")
             => LET after == IF last'.tag \in {"turn", "resumed"}
                             THEN last'.whole ELSE turn'[s].text
                    received == SubSeq(after, Len(turn[s].text) + 1, Len(after))
                IN  last'.started =
                       IF received # <<>> /\ ~live[s].hasSignaledTurnStart
                       THEN 1 ELSE 0 ]_vars

\* C12: a LiveApiService invokes onModelTurnStart once when a message with a
\* modelTurn arrives while hasSignaledTurnStart is false, whether or not the
\* message brings text, and for no other message; the flag is then set until
\* a turnComplete or an interrupted signal resets it.
C12_StartsOnFirstModelTurn ==
    [][ \A s \in Inst :
          (last'.inst = s /\ last'.msg # "")
             => /\ last'.started =
                      IF last'.msg = "modelTurn" /\ ~live[s].hasSignaledTurnStart
                      THEN 1 ELSE 0
                /\ live'[s].hasSignaledTurnStart =
                      (/\ last'.tag = ""
                       /\ (live[s].hasSignaledTurnStart \/ last'.msg = "modelTurn"))
      ]_vars

\* a modelTurn without text started a turn: onModelTurnStart was invoked and
\* no text has been received
C12_Witness ==
    /\ last.inst = "transcript"
    /\ last.msg = "modelTurn"
    /\ last.started = 1
    /\ last.tag = ""
    /\ turn["transcript"].text = <<>>
    /\ live["transcript"].hasSignaledTurnStart

\* C13: the n-th reconnect timer set since a connection of the object last
\* opened has the delay min(1000 * 2^(n-1), 5000) ms: 1000, 2000 and 4000 ms
\* for three consecutive unintentional closes.
C13_BackoffDelays ==
    \A s \in Objects : \A n \in DOMAIN backoff[s] :
        backoff[s][n] = IF n <= 3 THEN 1000 * 2^(n - 1) ELSE 5000

\* no reconnect timer was set by this step of object s
NoneScheduled(s) ==
    LET fields == IF s = "gemini" THEN gem ELSE live[s]
    IN  /\ backoff'[s] = backoff[s]
        /\ fields'.reconnectTimeoutId = fields.reconnectTimeoutId
        /\ fields'.strayTimers = fields.strayTimers

\* C14: the attempt counter always lies in 0..3, at most 3 reconnect timers
\* are set between two successful opens, and an unintentional close that
\* finds the counter at 3 sets no reconnect timer.
C14_BoundedReconnection ==
    [][ \A s \in Objects :
          /\ (IF s = "gemini" THEN gem' ELSE live'[s]).reconnectAttempts
                \in 0..maxReconnectAttempts
          /\ Len(backoff'[s]) <= maxReconnectAttempts
          /\ (last'.inst = s /\ last'.tag = "exhausted") => NoneScheduled(s) ]_vars

\* C15: when a connection of a GeminiService closes unintentionally with the
\* attempt counter at the maximum, the resumption handle is cleared in memory
\* and in localStorage, no reconnect timer is set and onClose is invoked
\* exactly once.
C15_GivesUp ==
    [][ \A c \in DOMAIN gemConn :
          (GemClose(c) /\ CloseTag(gem) = "exhausted")
             => /\ gem'.currentSessionHandle = 0
                /\ localStorage' = 0
                /\ NoneScheduled("gemini")
                /\ CountCb(GemOnClose(GemState, c).cbs, "onClose") = 1 ]_vars

\* after three reconnect attempts a connection of a GeminiService closed
\* unintentionally: no handle is left and no timer is pending
C15_Witness ==
    /\ last.inst = "gemini"
    /\ last.tag = "exhausted"
    /\ backoff["gemini"] = <<1000, 2000, 4000>>
    /\ gem.reconnectAttempts = maxReconnectAttempts
    /\ gem.currentSessionHandle = 0
    /\ localStorage = 0
    /\ gem.reconnectTimeoutId # "pending"
    /\ gem.strayTimers = 0

\* C16: when the remote rejects with 'not found' a GeminiService connect that
\* carried a resumption handle, the handle is cleared in memory and in
\* localStorage, and the next connect attempt, whether the catch block makes
\* it or a later call or timer does, carries no handle.
C16_NotFoundClearsHandle ==
    [][ LET attempted == Len(gemConn') > Len(gemConn)
            newAttempt == gemConn'[Len(gemConn')]
        IN  /\ \A c \in DOMAIN gemConn :
                 (GemHandshakeFails(c, TRUE) /\ gemConn[c].handle # 0)
                    => /\ gem'.currentSessionHandle = 0
                       /\ localStorage' = 0
                       /\ attempted => newAttempt.handle = 0
            /\ (hist.rejected /\ attempted) => newAttempt.handle = 0 ]_vars

\* C17: whenever a GeminiService is expecting a summary, whether requestSummary
\* or a sendFrame for data set 12 set the flag, the expectation is cleared in
\* the end, by a detected summary or by the summary timeout.
C17_ExpectationCleared == gem.isExpectingSummary ~> ~gem.isExpectingSummary

C19_QueuedWhileGenerating ==
    [][ (mgr.isReplyGenerating /\ mgr'.isReplyGenerating)
           => /\ flow'.submitted = flow.submitted
              /\ Len(mgr'.transcriptQueue) >= Len(mgr.transcriptQueue)
              /\ SubSeq(mgr'.transcriptQueue, 1, Len(mgr.transcriptQueue))
                    = mgr.transcriptQueue
              /\ SubSeq(mgr'.transcriptQueue, Len(mgr.transcriptQueue) + 1,
                        Len(mgr'.transcriptQueue))
                    = SubSeq(flow'.enqueued, Len(flow.enqueued) + 1,
                             Len(flow'.enqueued)) ]_vars

\* two transcripts arrived while the reply to the first was being generated
C19_Witness ==
    /\ mgr.isReplyGenerating
    /\ flow.submitted = <<"a">>
    /\ mgr.transcriptQueue = <<"b", "a">>

\* C20: in the dual-session pipeline, while the transcription session has an
\* open turn (started and not yet complete), a newly captured audio chunk is
\* not sent to the transcription session: it is appended to the audio buffer.
C20_BufferedDuringTurn ==
    [][ (DualAudioProcess /\ live["transcript"].hasSignaledTurnStart)
           => /\ CountCb(OnAudioProcess(DualState, cap.captured + 1).out,
                         "sendRealtimeInput") = 0
              /\ cap'.audioBuffer = Append(cap.audioBuffer, cap.captured + 1) ]_vars

\* C21: when setTranscribing(false) follows setTranscribing(true), the call
\* hands every buffered chunk, in capture order and before it returns, to the
\* transcript service's sendRealtimeAudio, which transmits each of them when
\* the service has a session; the buffer is empty afterwards, so that a
\* chunk captured later is sent after them
C21_FlushedInOrder ==
    /\ [](~cap.isTranscribing => cap.audioBuffer = <<>>)
    /\ [][ (\E b \in BOOLEAN : DualSetTranscribing(b) /\ ~b /\ cap.isTranscribing)
              => LET out == SetTranscribing(DualState, FALSE).out
                 IN  /\ Texts(out, "sendRealtimeAudio") = cap.audioBuffer
                     /\ \A i, j \in DOMAIN cap.audioBuffer :
                            i < j => cap.audioBuffer[i] < cap.audioBuffer[j]
                     /\ live["transcript"].session # 0
                            => Texts(out, "sendRealtimeInput") = cap.audioBuffer
                     /\ cap'.audioBuffer = <<>>
                     /\ ~cap'.isTranscribing ]_vars

\* buffering has just ended with chunks in the buffer while the transcript
\* service has a session, and chunks are still to come
C21_Witness ==
    /\ cap.isRunning /\ ~cap.isTranscribing
    /\ Len(flow.handed) >= 2
    /\ cap.audioBuffer = <<>>
    /\ live["transcript"].session # 0
    /\ cap.captured < audioBufferLimit

\* C22: while the capture is buffering, after every captured chunk the audio
\* buffer holds at most 50 entries and they are the chunks captured last, in
\* capture order: what overflow drops is the oldest entry
C22_NewestFifty ==
    cap.isTranscribing
       => /\ Len(cap.audioBuffer) <= 50
          /\ \A i \in DOMAIN cap.audioBuffer :
                 cap.audioBuffer[i] = cap.captured - Len(cap.audioBuffer) + i

\* more chunks than the buffer holds were captured while it was buffering:
\* the first of them are gone
C22_Witness ==
    /\ cap.isTranscribing
    /\ Len(cap.audioBuffer) = audioBufferLimit
    /\ cap.audioBuffer[1] > 1
    /\ cap.captured = audioBufferLimit + 1

\* C23: the session of the reply service is never sent an audio chunk, a
\* video frame or an end of the audio stream: all that is transmitted on it
\* are client-content turns whose text is a transcript that
\* processTranscriptQueue has submitted; the chunks of the capture go to the
\* transcript service
C23_ReplyGetsTextOnly ==
    \A e \in flow.replyInput :
        /\ e[1] = "sendClientContent"
        /\ \E i \in DOMAIN flow.submitted : e[2] = <<flow.submitted[i]>>

\* the capture has sent its chunks to the transcript service, whose session
\* has been there since the capture started, and the reply session has been
\* sent a transcript
C23_Witness ==
    /\ flow.replyInput = {<<"sendClientContent", <<"a">> >>}
    /\ cap.isRunning /\ cap.captured = MaxChunks
    /\ live["transcript"].session # 0
    /\ live["reply"].session # 0

\* C24: no send operation throws to its caller, whether the send of the
\* underlying transport succeeds or fails: not sendRealtimeAudio,
\* sendVideoFrame, sendText, endAudioStream of LiveApiService, nor sendFrame
\* and requestSummary of GeminiService
C24_SendsNeverThrow ==
    \A ok \in BOOLEAN :
        /\ \A op \in {"sendRealtimeAudio", "sendVideoFrame", "sendText",
                       "endAudioStream"} :
               CountCb(LiveSend(LiveState("transcript"), op, ok).cbs, "throws") = 0
        /\ \A dataSet12 \in BOOLEAN :
               CountCb(GemSendFrame(GemState, dataSet12, ok).cbs, "throws") = 0
        /\ CountCb(GemRequestSummary(GemState, ok).cbs, "throws") = 0

\* C25: a send operation called while the session object has no handle
\* transmits nothing and leaves every field of the object, the connections
\* and the stored handle as they were
C25_SendWithoutHandle ==
    \A ok \in BOOLEAN :
        /\ live["transcript"].session = 0
              => \A op \in {"sendRealtimeAudio", "sendVideoFrame", "sendText",
                             "endAudioStream"} :
                     LiveSend(LiveState("transcript"), op, ok) = LiveState("transcript")
        /\ gem.session = 0
              => /\ \A dataSet12 \in BOOLEAN :
                        GemSendFrame(GemState, dataSet12, ok) = GemState
                 /\ GemRequestSummary(GemState, ok) = GemState

\* the caller has just called a send method of a GeminiService that lost its
\* connection while it expected a summary and has a reconnect timer pending
C25_Witness ==
    /\ last.tag = "send" /\ last.inst = "gemini"
    /\ gem.session = 0
    /\ gem.isExpectingSummary
    /\ gem.reconnectTimeoutId = "pending"

\* C26: when the completed turn of a service of the manager fails to parse
\* (the try block of its onModelResponse throws: the text is no JSON, or the
\* transcript or reply of the object is no string), the callback appends no
\* record to transcripts or replies and enqueues nothing; on the reply
\* service it still clears isReplyGenerating and hands the head of the queue,
\* if there is one, to the reply service
C26_ParseFailureSkipped ==
    [][ \A s \in Inst : \A c \in DOMAIN liveConn[s] :
          \A m \in DualOffered(s, Len(flow.enqueued)) :
             LET S == LiveOnMessage(ServiceState(s), m)
                 D == Handled(DualState, s, S)
                 failed == \E i \in DOMAIN S.cbs :
                              /\ S.cbs[i].cb = "onModelResponse"
                              /\ ParsedProperty(S.cbs[i].text,
                                                IF s = "reply" THEN "reply" ELSE "transcript")
                                    \in {"throws", "nonstring"}
             IN  (DualMessage(s, c, m) /\ failed)
                    => /\ CountCb(D.out, "transcripts.push") = 0
                       /\ CountCb(D.out, "replies.push") = 0
                       /\ CountCb(D.out, "push") = 0
                       /\ s = "transcript" => mgr' = mgr
                       /\ s = "reply"
                             => /\ ~mgr'.isReplyGenerating
                                /\ IF mgr.replyService /\ mgr.transcriptQueue # <<>>
                                   THEN /\ Texts(D.out, "sendText")
                                              = <<Head(mgr.transcriptQueue)>>
                                        /\ mgr'.transcriptQueue = Tail(mgr.transcriptQueue)
                                   ELSE /\ Texts(D.out, "sendText") = <<>>
                                        /\ mgr'.transcriptQueue = mgr.transcriptQueue ]_vars

\* C27: after every step in which the manager has reported a fatal error
\* (onError and the status ERROR) neither of its two services has a session
C27_ErrorTearsDown ==
    last.tag = "fatal" => \A s \in Inst : ~LiveIsConnected(live[s])

\* C28: while the attempt counter is below maxReconnectAttempts, a close
\* that was not asked for and the failure of a connect() made by the
\* reconnect timer call neither onError nor onClose
C28_RecoveredSilently ==
    [][ LET Silent(cbs) == CountCb(cbs, "onError") = 0 /\ CountCb(cbs, "onClose") = 0
            s == "transcript"
        IN  /\ \A c \in DOMAIN liveConn[s] :
                 (/\ live[s].reconnectAttempts < maxReconnectAttempts
                  /\ \/ LiveClose(s, c) /\ ~live[s].isIntentionallyClosing
                     \/ LiveHandshakeFails(s, c) /\ liveConn[s][c].auto)
                    => /\ LiveClose(s, c) => Silent(LiveOnClose(LiveState(s), c).cbs)
                       /\ LiveHandshakeFails(s, c)
                             => Silent(LiveConnectCatch(LiveState(s), c).cbs)
            /\ \A c \in DOMAIN gemConn :
                 (/\ gem.reconnectAttempts < maxReconnectAttempts
                  /\ \/ GemClose(c) /\ ~gem.isIntentionallyClosing
                     \/ \E notFound \in BOOLEAN :
                           GemHandshakeFails(c, notFound) /\ gemConn[c].auto)
                    => /\ GemClose(c) => Silent(GemOnClose(GemState, c).cbs)
                       /\ \A notFound \in BOOLEAN :
                             GemHandshakeFails(c, notFound)
                                => Silent(GemConnectCatch(GemState, c, notFound).cbs) ]_vars

\* C29: connect() called on a session object that has a session fails with
\* an error its caller sees (it throws, or calls onError) and leaves the
\* fields of the object and its connections unchanged
C29_AlreadyConnectedError ==
    [][ LET Reported(cbs) == CountCb(cbs, "throws") + CountCb(cbs, "onError") > 0
            s == "transcript"
        IN  /\ (LiveCallConnect(s) /\ live[s].session # 0)
                  => /\ Reported(LiveConnect(LiveState(s), FALSE).cbs)
                     /\ live' = live /\ liveConn' = liveConn
            /\ (GemCallConnect /\ gem.session # 0)
                  => /\ Reported(GemConnect(GemState, -1, FALSE).cbs)
                     /\ gem' = gem /\ gemConn' = gemConn
                     /\ localStorage' = localStorage ]_vars

\* C29 as amended: connect() called on a session object that has a session
\* returns without an error and without a callback (it logs a warning),
\* starts no connection, and leaves the fields of the object and its
\* connections unchanged
C29_AlreadyConnectedIgnored ==
    [][ LET s == "transcript"
        IN  /\ (LiveCallConnect(s) /\ live[s].session # 0)
                  => /\ LiveConnect(LiveState(s), FALSE).cbs = <<>>
                     /\ live' = live /\ liveConn' = liveConn
            /\ (GemCallConnect /\ gem.session # 0)
                  => /\ GemConnect(GemState, -1, FALSE).cbs = <<>>
                     /\ gem' = gem /\ gemConn' = gemConn
                     /\ localStorage' = localStorage ]_vars

\* the caller's second connect() found the session of the first: there is
\* one connection, and it is open
C29_Witness ==
    /\ caller["transcript"] = [last |-> "connect", connects |-> 2]
    /\ live["transcript"].session = 1
    /\ Len(liveConn["transcript"]) = 1
    /\ liveConn["transcript"][1].st = "open"

\* C30: from every reachable state of a session object of either class, a
\* second disconnect() that follows the first changes nothing: after one call
\* as after two there is no session and no reconnect or summary timer that
\* the object still names, and the buffer, the flags, the counter and the
\* connections are the same
C30_DisconnectIdempotent ==
    LET once == LiveDisconnect(LiveState("transcript"))
        gonce == GemDisconnect(GemState)
    IN  /\ LiveDisconnect(once) = once
        /\ once.L.session = 0 /\ once.L.reconnectTimeoutId = "null"
        /\ once.cbs = <<>>
        /\ GemDisconnect(gonce) = gonce
        /\ gonce.G.session = 0 /\ gonce.G.reconnectTimeoutId = "null"
        /\ gonce.G.summaryTimeoutId = "null"
        /\ gonce.cbs = <<>>

\* disconnect() has just closed the session of a LiveApiService: the close
\* event of its connection is still to come
C30_Witness ==
    /\ caller["transcript"].last = "disconnect"
    /\ live["transcript"].session = 0
    /\ live["transcript"].isIntentionallyClosing
    /\ \E c \in DOMAIN liveConn["transcript"] : liveConn["transcript"][c].st = "closing"

\* C31: a transcript in transcriptQueue leaves it in the end for the reply
\* session, unless the manager is stopped or fails or a connection is lost
\* (no connection of either service is ever closed): also a transcript queued
\* before start() has both services connected
C31_QueueDrained ==
    (mgr.transcriptQueue # <<>>)
       ~> \/ mgr.transcriptQueue = <<>>
          \/ mgr.startAt = "none" /\ ~mgr.replyService
          \/ \E s \in Inst : \E c \in DOMAIN liveConn[s] :
                 liveConn[s][c].st \notin {"open", "handshaking"}

\* C32: a close that was not asked for either schedules a reconnect or calls
\* onClose, and once it has scheduled one the object is in the end connected
\* again, or a rejected connect() has called onError, or a close
\* at the maximum has called onClose, unless the caller calls disconnect() or
\* clearSession() (the connections followed are ConnBound at most)
C32_NeverSilentlyDown ==
    /\ [][ /\ \A c \in DOMAIN liveConn["transcript"] :
               (LiveClose("transcript", c) /\ CloseTag(live["transcript"]) = "lost")
                  => \/ live'["transcript"].reconnectTimeoutId = "pending"
                     \/ CountCb(LiveOnClose(LiveState("transcript"), c).cbs, "onClose") = 1
           /\ \A c \in DOMAIN gemConn :
               (GemClose(c) /\ CloseTag(gem) = "lost")
                  => \/ gem'.reconnectTimeoutId = "pending"
                     \/ CountCb(GemOnClose(GemState, c).cbs, "onClose") = 1 ]_vars
    /\ \A s \in {"transcript", "gemini"} :
          (/\ last.inst = s /\ last.tag = "lost"
           /\ "pending" = IF s = "gemini" THEN gem.reconnectTimeoutId
                          ELSE live[s].reconnectTimeoutId)
             ~> \/ IF s = "gemini" THEN GemIsConnected(gem) ELSE LiveIsConnected(live[s])
                \/ last.inst = s /\ last.tag \in {"failed", "exhausted"}
                \/ caller[s].last = "disconnect"
                \/ Len(IF s = "gemini" THEN gemConn ELSE liveConn[s]) >= ConnBound

\* a reconnect attempt has just been rejected after a close that was not
\* asked for
C32_Witness ==
    /\ last.tag = "failed"
    /\ backoff[last.inst] # <<>>
    /\ caller[last.inst].last = "connect"

C34_HandleSurvivesDisconnect ==
    [][ /\ GemCallDisconnect
             => /\ gem'.currentSessionHandle = gem.currentSessionHandle
                /\ localStorage' = localStorage
        /\ (\/ gem.currentSessionHandle # 0 /\ gem'.currentSessionHandle = 0
            \/ localStorage # 0 /\ localStorage' = 0)
             => \/ GemCallClearSession
                \/ \E c \in DOMAIN gemConn : GemHandshakeFails(c, TRUE)
                \/ \E c \in DOMAIN gemConn :
                      /\ GemHandshakeFails(c, FALSE)
                      /\ gemConn[c].auto
                      /\ gem.reconnectAttempts >= maxReconnectAttempts
                \/ \E c \in DOMAIN gemConn :
                      GemClose(c) /\ CloseTag(gem) = "exhausted"
        /\ GemCallClearSession
             => /\ gem'.currentSessionHandle = 0
                /\ localStorage' = 0
                /\ gem'.reconnectAttempts = 0
                /\ ~GemIsConnected(gem') ]_vars

\* disconnect() has closed the session of a GeminiService and the handle is
\* still held in both places
C34_Witness ==
    /\ caller["gemini"].last = "disconnect"
    /\ \E c \in DOMAIN gemConn : gemConn[c].st = "closing"
    /\ ~GemIsConnected(gem)
    /\ gem.currentSessionHandle # 0
    /\ localStorage = gem.currentSessionHandle

\* C35: in LiveApiService a close that was not asked for, the reconnect
\* timer and the opening of the reconnection leave currentMessage as it was,
\* so that the next turnComplete emits the fragments received before and
\* after the closure as one Turn; disconnect() leaves currentMessage empty
C35_BufferAcrossReconnect ==
    [][ \A s \in Inst :
          /\ \A c \in DOMAIN liveConn[s] :
                /\ (LiveClose(s, c) /\ ~live[s].isIntentionallyClosing)
                      => live'[s].currentMessage = live[s].currentMessage
                /\ LiveHandshakeOpens(s, c)
                      => live'[s].currentMessage = live[s].currentMessage
                /\ \A m \in Offered :
                      (LiveMessage(s, c, m) /\ m.turnComplete
                          /\ Trim(turn[s].text \o Concat(m.parts)) # <<>>)
                         => last'.turns
                               = <<CbText("onModelResponse",
                                          Trim(turn[s].text \o Concat(m.parts)))>>
          /\ LiveTimerFires(s) => live'[s].currentMessage = live[s].currentMessage
          /\ LiveCallDisconnect(s) => live'[s].currentMessage = <<>> ]_vars

\* C36 as stated: when the REPLY section of a Turn of the interview pipeline
\* has a label at the start of one of its lines, the reply text is not added
\* to the replies and the diagnostic placeholder is added in its place
C36_LeakedReplyReplaced ==
    [][ LET text == interview'.text
        IN  (/\ InterviewTurn(text)
             /\ ReplyMatch(text).found
             /\ HasLeakedLabels(ReplyMatch(text).text))
               => interview'.replies
                     = Append(interview.replies,
                              <<"No reply found - model did not follow format">>) ]_vars

\* C36 as the code has it: such a reply text is not added to the replies and
\* nothing is added in its place; the placeholder is added exactly when the
\* Turn has neither a REPLY section nor a TRANSCRIPT section
C36_LeakedReplyDropped ==
    [][ LET text == interview'.text
        IN  InterviewTurn(text)
               => /\ (ReplyMatch(text).found /\ HasLeakedLabels(ReplyMatch(text).text))
                        => interview'.replies = interview.replies
                  /\ (interview'.replies
                         = Append(interview.replies,
                                  <<"No reply found - model did not follow format">>))
                        <=> (~ReplyMatch(text).found /\ ~TranscriptMatch(text).found) ]_vars

\* a Turn whose reply has a second line that starts with REPLY: has been
\* handled: no reply is listed
C36_Witness ==
    /\ interview.text = <<"R:", "w", "\n", "R:", "w">>
    /\ interview.transcript = <<>>
    /\ interview.replies = <<>>

\* C37: the close event of a connection that disconnect() has closed is not
\* handled as a closure that was not asked for: the step leaves the attempt
\* counter, the reconnect timers and the resumption handle as they were,
\* calls neither onReconnecting nor onClose, and leaves the session of a
\* newer connection in place, also when connect() was called in between
C37_IntentionalCloseIsQuiet ==
    [][ /\ \A s \in Inst : \A c \in DOMAIN liveConn[s] :
             (LiveClose(s, c) /\ liveConn[s][c].st = "closing")
                => /\ live'[s].reconnectAttempts = live[s].reconnectAttempts
                   /\ live'[s].reconnectTimeoutId = live[s].reconnectTimeoutId
                   /\ live'[s].strayTimers = live[s].strayTimers
                   /\ CountCb(LiveOnClose(LiveState(s), c).cbs, "onReconnecting") = 0
                   /\ CountCb(LiveOnClose(LiveState(s), c).cbs, "onClose") = 0
                   /\ live'[s].session = live[s].session
        /\ \A c \in DOMAIN gemConn :
             (GemClose(c) /\ gemConn[c].st = "closing")
                => /\ gem'.reconnectAttempts = gem.reconnectAttempts
                   /\ gem'.reconnectTimeoutId = gem.reconnectTimeoutId
                   /\ gem'.strayTimers = gem.strayTimers
                   /\ CountCb(GemOnClose(GemState, c).cbs, "onReconnecting") = 0
                   /\ CountCb(GemOnClose(GemState, c).cbs, "onClose") = 0
                   /\ gem'.session = gem.session
                   /\ gem'.currentSessionHandle = gem.currentSessionHandle ]_vars

\* C38: from the return of stop() until start() is called again the manager
\* holds no service (start() does not go on to the status ANALYZING), neither
\* service has a session, transcriptQueue is empty and nothing has been handed
\* to replyService.sendText; also when stop() was called while start() was
\* awaiting the two connections
C38_StoppedStaysStopped ==
    flow.stopped
       => /\ ~mgr.transcriptService /\ ~mgr.replyService
          /\ \A s \in Inst : ~LiveIsConnected(live[s])
          /\ mgr.transcriptQueue = <<>>
          /\ flow.submitted = <<>>

\* C39: summaryCompletionCallback is called at most once between two
\* raisings of isExpectingSummary: a step that calls it calls it once, finds
\* the flag set and leaves it reset with no summary timeout pending, and a
\* summary timeout is pending only while the flag is set; so after the
\* timeout a later summary does not call it, and after the summary the
\* timer does not
C39_CompletionOnce ==
    /\ [](hist.fired <= 1)
    /\ [](gem.summaryTimeoutId = "pending" => gem.isExpectingSummary)
    /\ [][ hist'.fired > hist.fired
             => /\ gem.isExpectingSummary
                /\ ~gem'.isExpectingSummary
                /\ gem'.summaryTimeoutId # "pending" ]_vars

\* the callback was called once for the expectation, and a Turn with the
\* summary has just completed on the session
C39_Witness ==
    /\ hist.fired = 1
    /\ last.tag = "turn"
    /\ IsSummary(last.whole)
    /\ ~gem.isExpectingSummary
    /\ gem.summaryTimeoutId = "null"
    /\ GemIsConnected(gem)

\* C40: from the return of DynamicSampling.stop() until start() is called
\* again no step calls geminiService.sendFrame or scheduleNextCapture and no
\* capture timer is pending, also when stop() was called while a capture was
\* awaiting its audio snippet.  Stated of a sampler that was started once,
\* whose only capture timers are those of that start()
C40_StoppedSamplerIsIdle ==
    sampler.stopped /\ sampler.starts = 1
       => /\ ~sampler.sent
          /\ ~sampler.armed
          /\ sampler.captureTimeoutId # "pending"
          /\ sampler.strayTimers = 0

====
